---- MODULE Spec2Model ----
(***************************************************************************)
(* Wave director (EnemySystem), hostile agents (EnemyUnit), allied agents  *)
(* (AnimalUnit), the defended Objective and the inventory of vibe-game.    *)
(*                                                                         *)
(* Conventions                                                             *)
(*  - Lengths are in tenths of a world unit and speeds in tenths of a unit *)
(*    per second, so that the variation modifiers (0.7, 0.8, 1.3) stay     *)
(*    integral.  The world is reduced to the line through the Objective,   *)
(*    which sits at coordinate 0; terrain height is not part of a position.*)
(*  - performance.now() is read through saturating elapsed-time counters   *)
(*    (seconds): the code only ever compares differences of readings with  *)
(*    fixed thresholds.                                                    *)
(*  - setTimeout callbacks are records in `timers`, in scheduling order;   *)
(*    the callbacks one staggering loop schedules are one record.  A timer *)
(*    may fire arbitrarily late, never out of the order the HTML timer     *)
(*    algorithm guarantees.                                                *)
(*  - `log` holds what the last step published or invoked (events on the   *)
(*    event bus, the game-over overlay, completeWave invocations, console  *)
(*    warnings, return values).                                            *)
(***************************************************************************)
EXTENDS Integers, Sequences, FiniteSets, TLC

VARIABLES
    waveNumber,          \* EnemySystem.waveNumber
    enemiesRemaining,    \* EnemySystem.enemiesRemaining
    waveInProgress,      \* EnemySystem.waveInProgress
    timeUntilNextWave,   \* EnemySystem.timeUntilNextWave (seconds)
    waveElapsedTime,     \* now - EnemySystem._waveStartTime, NoTime while unset
    timeSinceLastSpawn,  \* now - EnemySystem._lastSpawnTime, NoTime while unset
    nextSpawnTimeout,    \* EnemySystem.nextSpawnTimeout: a timer id or NoTimer
    timers,              \* pending setTimeout callbacks, in scheduling order
    enemies,             \* EnemySystem.enemies == GameContext.enemies (ids)
    enemyUnits,          \* the EnemyUnit objects, by id
    inventory,           \* InventorySystem.inventory
    objective,           \* GameContext.objective
    agent,               \* one AnimalUnit under test (SpecDamage)
    units,               \* UnitSystem.units == GameContext.units
    spawnAttempts,       \* spawn callbacks run since the last startNextWave
                         \* (counted in SpecAttempts)
    world,               \* GameContext.world: the World and its chunks
    listeners,           \* EventBus.listeners: a Map from event to callbacks
    log                  \* what the last step published / invoked

vars == <<waveNumber, enemiesRemaining, waveInProgress, timeUntilNextWave,
          waveElapsedTime, timeSinceLastSpawn, nextSpawnTimeout, timers,
          enemies, enemyUnits, inventory, objective, agent, units,
          spawnAttempts, world, listeners, log>>

(***************************************************************************)
(* Bounds of the model                                                     *)
(***************************************************************************)
MaxWave == 1
MaxEnemies == 1
MaxObjectiveDamage == 5
MaxTimers == 4
MaxStartWave == 15
MaxWaveSeq == 3
MaxTimersSeq == 6
MaxObserverChunk == 1
MaxObjects == 8
MaxRespawns == 2
MaxHarvest == 12
ArenaMin == 360
ArenaMax == 610

\* wall-clock steps (seconds), frame times (seconds), damage inputs
TimeSteps == {31}
DeltaTimes == {10}
DamageAmounts == {50}
ObjectiveDamageAmounts == {5, 195}
BatchDelays == {4000}
SpawnPositions == {400}
VariationChoices == {"normal"}
\* seeds of the noise, node counts and node offsets (sixteenths) of a chunk,
\* coordinates of height queries (sixteenths)
NoiseSeeds == {1, 2}
TreeCounts == {5}
RockCounts == {3}
NodeOffsets == {[tree |-> <<210, 335>>, rock |-> <<610, 110>>]}
QueryCoords == {-3205, 212, 3200}
\* wall-clock steps (seconds) of the respawn timers
NodeTimeSteps == {15}
SpawnOutcomes == {"ok", "throwBeforeRegister", "throwAfterRegister"}

(***************************************************************************)
(* Program constants                                                       *)
(***************************************************************************)
WaveTimeout == 60
SpawnStallTimeout == 30
FirstWaveDelay == 5
MaxWaveEnemies == 30
MaxInitialSpawns == 10
MaxBatchSize == 3
InitialStagger == 500
SpawnStagger == 800
AttackCooldown == 1
AttackDistance == 20
ObjectivePosition == 0
StuckBoostAfter == 1
StuckJumpAfter == 3
ObjectiveMaxHealth == 1000
StartingWood == 25
StartingStone == 15
HarvestDamage == 25
InteractionRange == 40
ChunkSize == 50
ViewDistance == 2
TerrainResolution == 32
MinTrees == 5
MinRocks == 3
DefaultVision == 200
StuckCheckInterval == 10
PathfindingInterval == 10
WanderDuration == 50
StuckDistance == 1
ArrivalDistance == 10
AttackReach == 20

NoTime == -1
NoTimer == 0
NoEnemy == [free |-> TRUE]
NoAgent == [free |-> TRUE]

Min(a, b) == IF a < b THEN a ELSE b
Max(a, b) == IF a > b THEN a ELSE b
Abs(a) == IF a < 0 THEN -a ELSE a
Sign(a) == IF a > 0 THEN 1 ELSE IF a < 0 THEN -1 ELSE 0

\* F applied to the value of x.  A LET definition is evaluated anew at each of
\* its uses; the value bound here is computed once.
Bind(x, F(_)) == CHOOSE r \in {F(v) : v \in {x}} : TRUE

\* a reading of an elapsed time that only matters up to `cap`
Saturate(t, cap) == Min(t, cap)
Elapse(t, d, cap) == IF t = NoTime THEN NoTime ELSE Saturate(t + d, cap)

\* s with the i-th element removed (Array.prototype.splice(i, 1))
Splice(s, i) == SubSeq(s, 1, i - 1) \o SubSeq(s, i + 1, Len(s))

\* Array.prototype.indexOf, 1-based, 0 when absent
IndexOf(s, x) ==
    IF \E i \in 1..Len(s) : s[i] = x
    THEN CHOOSE i \in 1..Len(s) : s[i] = x /\ \A j \in 1..(i - 1) : s[j] # x
    ELSE 0

(***************************************************************************)
(* EnemySystem.enemyTypes / enemyVariations                                *)
(***************************************************************************)
enemyTypes ==
    [goblin  |-> [health |-> 50,  damage |-> 5,  speed |-> 40],
     orc     |-> [health |-> 100, damage |-> 10, speed |-> 30],
     troll   |-> [health |-> 200, damage |-> 15, speed |-> 20],
     demon   |-> [health |-> 150, damage |-> 20, speed |-> 40],
     warlock |-> [health |-> 80,  damage |-> 25, speed |-> 25]]

\* modifiers in tenths
enemyVariations ==
    [normal |-> [healthMod |-> 10, damageMod |-> 10, speedMod |-> 10],
     large  |-> [healthMod |-> 20, damageMod |-> 15, speedMod |-> 8],
     huge   |-> [healthMod |-> 30, damageMod |-> 20, speedMod |-> 7],
     quick  |-> [healthMod |-> 7,  damageMod |-> 8,  speedMod |-> 13]]

\* types unlocked at wave w
AvailableTypes(w) ==
    LET unlocked == (IF w >= 1 THEN {"goblin"} ELSE {})
                    \cup (IF w >= 3 THEN {"orc"} ELSE {})
                    \cup (IF w >= 5 THEN {"troll"} ELSE {})
                    \cup (IF w >= 7 THEN {"demon"} ELSE {})
                    \cup (IF w >= 9 THEN {"warlock"} ELSE {})
    IN IF unlocked = {} THEN {"goblin"} ELSE unlocked

\* attributes handed to the EnemyUnit constructor
\* waveScaling = 1 + (w - 1) * 0.1 = (9 + w) / 10
ScaledAttributes(type, variation, w) ==
    LET base == enemyTypes[type]
        v == enemyVariations[variation]
    IN [health |-> (base.health * (9 + w) * v.healthMod) \div 100,
        damage |-> (base.damage * (9 + w) * v.damageMod) \div 100,
        speed  |-> (base.speed * v.speedMod) \div 10]

\* mutant: one more enemy per wave instead of two
EnemiesForWave_Mutant(w) == Min(5 + w, MaxWaveEnemies)

EnemiesForWave(w) == Min(5 + w * 2, MaxWaveEnemies)
\* mutant: the initial burst grows every third wave instead of every second
InitialSpawnsForWave_Mutant(w) == Min(3 + (w \div 3), MaxInitialSpawns)

InitialSpawnsForWave(w) == Min(3 + (w \div 2), MaxInitialSpawns)
\* mutant: a batch is not capped at three enemies
BatchSize_Mutant(w, remaining) == Min(1 + (w \div 3), remaining)

BatchSize(w, remaining) == Min(Min(1 + (w \div 3), remaining), MaxBatchSize)

(***************************************************************************)
(* The program state as one record, so that a handler is the composition   *)
(* of the calls it makes.                                                  *)
(***************************************************************************)
Cur ==
    [waveNumber |-> waveNumber, enemiesRemaining |-> enemiesRemaining,
     waveInProgress |-> waveInProgress, timeUntilNextWave |-> timeUntilNextWave,
     waveElapsedTime |-> waveElapsedTime, timeSinceLastSpawn |-> timeSinceLastSpawn,
     nextSpawnTimeout |-> nextSpawnTimeout, timers |-> timers,
     enemies |-> enemies, enemyUnits |-> enemyUnits, inventory |-> inventory,
     objective |-> objective, agent |-> agent, units |-> units,
     spawnAttempts |-> spawnAttempts, world |-> world,
     listeners |-> listeners, log |-> <<>>]

\* all pending callbacks
RECURSIVE PendingCallbacks(_)
PendingCallbacks(tms) ==
    IF tms = <<>> THEN 0 ELSE Head(tms).left + PendingCallbacks(Tail(tms))

\* the bounds of the model: a step is taken only if its result is within them
WithinBounds(s) ==
    /\ s.waveNumber <= MaxWave
    /\ PendingCallbacks(s.timers) <= MaxTimers
    /\ s.objective.maxHealth - s.objective.health <= MaxObjectiveDamage

Assign(s) ==
    /\ waveNumber' = s.waveNumber
    /\ enemiesRemaining' = s.enemiesRemaining
    /\ waveInProgress' = s.waveInProgress
    /\ timeUntilNextWave' = s.timeUntilNextWave
    /\ waveElapsedTime' = s.waveElapsedTime
    /\ timeSinceLastSpawn' = s.timeSinceLastSpawn
    /\ nextSpawnTimeout' = s.nextSpawnTimeout
    /\ timers' = s.timers
    /\ enemies' = s.enemies
    /\ enemyUnits' = s.enemyUnits
    /\ inventory' = s.inventory
    /\ objective' = s.objective
    /\ agent' = s.agent
    /\ units' = s.units
    /\ spawnAttempts' = s.spawnAttempts
    /\ world' = s.world
    /\ listeners' = s.listeners
    /\ log' = s.log

InstallUnbounded(s) == \E next \in {s} : Assign(next)

Install(s) == \E next \in {s} : WithinBounds(next) /\ Assign(next)

LogEntry(ev, n, r, t) == [ev |-> ev, n |-> n, r |-> r, t |-> t]
Publish(s, entry) == [s EXCEPT !.log = Append(@, entry)]

\* EventBus.emit(event, data) with data an enemy
Emit(s, event, id) == Publish(s, LogEntry(event, id, 0, 0))

(***************************************************************************)
(* setTimeout / clearTimeout                                               *)
(***************************************************************************)
\* A record of `timers` stands for the callbacks one loop (or one call)
\* scheduled: `left` callbacks are pending, the next one with timeout `delay`,
\* each following one `step` later.  Only the handle of a batch timer is ever
\* kept (nextSpawnTimeout); the other handles are discarded and their id is
\* NoTimer here.  `wave` is the wave that was running when they were scheduled.
\* A new id is the smallest one no pending timer has: nextSpawnTimeout, the
\* only place an id is kept, is overwritten with it.
TimerIds(s) == {s.timers[i].id : i \in 1..Len(s.timers)}

FreshTimerId(s) ==
    CHOOSE n \in 1..(Len(s.timers) + 1) :
        /\ n \notin TimerIds(s)
        /\ \A m \in 1..(n - 1) : m \in TimerIds(s)

SetTimeout(s, kind, delay, left, step) ==
    [s EXCEPT !.timers = Append(@, [id |-> IF kind = "batch" THEN FreshTimerId(s)
                                           ELSE NoTimer,
                                     kind |-> kind, wave |-> s.waveNumber,
                                     delay |-> delay, left |-> left,
                                     step |-> step])]

ClearTimeout(s, id) ==
    [s EXCEPT !.timers = SelectSeq(@, LAMBDA tm : tm.id = NoTimer \/ tm.id # id)]

\* the timers with the next callback of record j taken off (it runs, or it is
\* lost)
TakeCallback(tms, j) ==
    IF tms[j].left <= 1 THEN Splice(tms, j)
    ELSE [tms EXCEPT ![j].left = @ - 1, ![j].delay = @ + tms[j].step]

\* callbacks of the running wave that would still spawn an enemy or a batch
\* and that completeWave does not cancel
RECURSIVE PendingIn(_, _, _)
PendingIn(tms, wave, kept) ==
    IF tms = <<>> THEN 0
    ELSE (IF Head(tms).wave = wave /\ (Head(tms).id = NoTimer \/ Head(tms).id # kept)
          THEN Head(tms).left ELSE 0) + PendingIn(Tail(tms), wave, kept)

PendingSpawnCallbacks(s) == PendingIn(s.timers, s.waveNumber, s.nextSpawnTimeout)

\* The timer algorithm runs a callback only after every callback that was
\* scheduled earlier with an equal or smaller timeout.
MayFire(tms, j) == \A i \in 1..(j - 1) : tms[i].delay > tms[j].delay

(***************************************************************************)
(* InventorySystem                                                         *)
(***************************************************************************)
addItem(inv, type, amount) ==
    IF type \in DOMAIN inv THEN [inv EXCEPT ![type] = @ + amount] ELSE inv

\* removeItem without the comparison with the count held
removeItem_Mutant(inv, type, amount) ==
    IF type \in DOMAIN inv THEN [inv EXCEPT ![type] = @ - amount] ELSE inv

removeItem(inv, type, amount) ==
    IF type \in DOMAIN inv /\ inv[type] >= amount
    THEN [inv EXCEPT ![type] = @ - amount] ELSE inv

\* what addItem and removeItem return
addItemReturns(inv, type, amount) == type \in DOMAIN inv
removeItemReturns(inv, type, amount) == type \in DOMAIN inv /\ inv[type] >= amount

\* InventorySystem defines no addResource: the call throws a TypeError that
\* the caller catches, and the inventory is left as it was.
addResource(inv, type, amount) == inv

(***************************************************************************)
(* Objective                                                               *)
(***************************************************************************)
\* objective.takeDamage(amount)
ObjectiveTakeDamage(s, amount) ==
    LET before == s.objective.health
        after == Max(0, before - amount)
        s1 == [s EXCEPT !.objective.health = after]
    IN IF after <= 0
       THEN Publish(s1, LogEntry("objectiveDestroyed", before, amount, 0))
       ELSE s1

isDestroyed(obj) == obj.health <= 0

(***************************************************************************)
(* EnemyUnit                                                               *)
(***************************************************************************)
\* new EnemyUnit(...): the fields the constructor sets.  lastAttackTime is 0,
\* so the first attack is never held back by the cooldown; `tracked` says
\* whether _lastPosition / _lastMoveTime have been initialised.
\* GameContext.objective before Game.createObjective has run
NoObjective == [health |-> 0, maxHealth |-> 0]

\* mutant: the enemies go for the player although an Objective exists
TargetOrPlayer_Mutant(obj) == "player"

\* this.context.objective || this.player
TargetOrPlayer(obj) == IF obj # NoObjective THEN "objective" ELSE "player"

NewEnemyUnit(attributes, position) ==
    [isAlive |-> TRUE, health |-> attributes.health,
     maxHealth |-> attributes.health, damage |-> attributes.damage,
     speed |-> attributes.speed, state |-> "chase", target |-> "player",
     position |-> position, velocity |-> 0,
     sinceAttack |-> AttackCooldown,
     tracked |-> FALSE, lastPosition |-> 0, sinceMove |-> 0,
     notified |-> 0]

\* GameContext.registerEnemy(enemy), called from EnemyUnit.createMesh
registerEnemy(s, id) ==
    IF IndexOf(s.enemies, id) = 0
    THEN Emit([s EXCEPT !.enemies = Append(@, id)], "enemySpawned", id)
    ELSE s

\* one `indexOf / splice` pair of notifyDeath
RemoveFirst(roster, id) ==
    IF IndexOf(roster, id) # 0 THEN Splice(roster, IndexOf(roster, id)) ELSE roster

\* events.emit('enemyRemoved', enemy); `notified` counts the notifications
\* published for the enemy so far
EmitRemoved(s, id) ==
    Emit([s EXCEPT !.enemyUnits[id].notified = @ + 1], "enemyRemoved", id)

\* EnemyUnit.notifyDeath: context.enemies, context.systems.enemy.enemies and
\* window.enemies are one and the same array
notifyDeath(s, id) ==
    LET s1 == EmitRemoved(s, id)
    IN [s1 EXCEPT !.enemies = RemoveFirst(RemoveFirst(RemoveFirst(@, id), id), id)]

\* EnemyUnit.die(): the new state and the loot it returns (NoLoot: undefined)
NoLoot == [type |-> "none", amount |-> 0]
die(s, id, loot) ==
    IF ~s.enemyUnits[id].isAlive
    THEN [s |-> s, loot |-> NoLoot]
    ELSE [s |-> notifyDeath([s EXCEPT !.enemyUnits[id].isAlive = FALSE,
                                     !.enemyUnits[id].state = "die"], id),
          loot |-> loot]

\* EnemyUnit.takeDamage(amount)
EnemyHealthAfter(health, amount) == health - amount

\* mutant: no early return for a dead enemy
takeDamage_Mutant(s, id, amount, loot) ==
    LET health == EnemyHealthAfter(s.enemyUnits[id].health, amount)
        s1 == [s EXCEPT !.enemyUnits[id].health = health]
    IN IF health <= 0
       THEN die([s1 EXCEPT !.enemyUnits[id].isAlive = FALSE,
                           !.enemyUnits[id].state = "die"], id, loot).s
       ELSE s1

takeDamage(s, id, amount, loot) ==
    LET u == s.enemyUnits[id]
        health == EnemyHealthAfter(u.health, amount)
        s1 == [s EXCEPT !.enemyUnits[id].health = health]
    IN IF ~u.isAlive THEN s
       ELSE IF health <= 0
            THEN die([s1 EXCEPT !.enemyUnits[id].isAlive = FALSE,
                                !.enemyUnits[id].state = "die"], id, loot).s
            ELSE s1

\* the value takeDamage returns: the damage dealt, 0 for a dead enemy
takeDamageReturn(s, id, amount) == IF ~s.enemyUnits[id].isAlive THEN 0 ELSE amount

\* EnemyUnit.checkStuckStatus(targetPos)
checkStuckStatus(u, targetPos) ==
    IF ~u.tracked
    THEN [u EXCEPT !.tracked = TRUE, !.lastPosition = u.position, !.sinceMove = 0]
    ELSE LET distanceMoved == Abs(u.position - u.lastPosition)
             timePassed == u.sinceMove
             direction == Sign(targetPos - u.position)
             boosted == [u EXCEPT !.velocity =
                            direction * u.speed * (1 + Min(3, timePassed))]
             jumped == boosted.position + direction * (3 + (timePassed - 3)) * 10
         IN IF distanceMoved < 5 /\ timePassed > StuckBoostAfter
            THEN IF timePassed > StuckJumpAfter
                 THEN [boosted EXCEPT !.position = jumped,
                                      !.lastPosition = jumped, !.sinceMove = 0]
                 ELSE boosted
            ELSE IF distanceMoved > 2
                 THEN [u EXCEPT !.lastPosition = u.position, !.sinceMove = 0]
                 ELSE u

\* EnemyUnit.attackTarget(target, deltaTime), the target being the Objective
attackTarget(s, id) ==
    LET u == s.enemyUnits[id]
    IN IF u.sinceAttack >= AttackCooldown
       THEN ObjectiveTakeDamage([s EXCEPT !.enemyUnits[id].sinceAttack = 0],
                                u.damage)
       ELSE s

\* EnemyUnit.chaseTarget(target, deltaTime)
chaseTarget(s, id, targetPos) ==
    LET u == s.enemyUnits[id]
        direction == Sign(targetPos - u.position)
        distance == Abs(targetPos - u.position)
    IN [s EXCEPT !.enemyUnits[id].velocity = direction * u.speed,
                 !.enemyUnits[id].state =
                     IF distance <= AttackDistance THEN "attack" ELSE @]

\* EnemyUnit.update(deltaTime)
EnemyUnitUpdate(s, id, deltaTime) ==
    LET u == s.enemyUnits[id]
        targetPos == ObjectivePosition
        distanceToTarget == Abs(u.position - targetPos)
        state == IF distanceToTarget <= AttackDistance THEN "attack" ELSE "chase"
        s1 == [s EXCEPT !.enemyUnits[id].target = TargetOrPlayer(s.objective),
                        !.enemyUnits[id].state = state]
        direction == Sign(targetPos - u.position)
        velocity == direction * u.speed
    IN IF ~u.isAlive THEN s
       ELSE Bind(IF state = "chase" THEN chaseTarget(s1, id, targetPos)
                 ELSE attackTarget(s1, id),
                 LAMBDA s2 :
            Bind([s2.enemyUnits[id] EXCEPT
                     !.velocity = velocity,
                     !.position = u.position + velocity * deltaTime],
                 LAMBDA moved :
                [s2 EXCEPT !.enemyUnits[id] = checkStuckStatus(moved, targetPos)]))

(***************************************************************************)
(* EnemySystem                                                             *)
(***************************************************************************)
Range(f) == {f[i] : i \in DOMAIN f}

\* objects no roster entry refers to any more are garbage
Collect(s) ==
    [s EXCEPT !.enemyUnits =
        [i \in DOMAIN @ |-> IF i \in Range(s.enemies) THEN @[i] ELSE NoEnemy]]

FreeSlots(s) == {i \in DOMAIN s.enemyUnits : s.enemyUnits[i] = NoEnemy}
FreeSlot(s) == CHOOSE i \in FreeSlots(s) : \A j \in FreeSlots(s) : i <= j

\* the loop `for (i = 0; i < n; i++) if (enemiesRemaining > 0) setTimeout(...,
\* i * step)`; enemiesRemaining does not change while the loop runs
ScheduleStaggered(s, kind, n, step) ==
    IF n > 0 /\ s.enemiesRemaining > 0 THEN SetTimeout(s, kind, 0, n, step) ELSE s

\* EnemySystem.startNextWave()
startNextWave(s) ==
    LET w == s.waveNumber + 1
        s1 == [s EXCEPT !.waveNumber = w,
                        !.waveInProgress = TRUE,
                        !.waveElapsedTime = 0,
                        !.timeSinceLastSpawn = 0,
                        !.enemiesRemaining = EnemiesForWave(w)]
    IN ScheduleStaggered(Publish(s1, LogEntry("startNextWave", Len(s.enemies), 0, 0)),
                         "initial", InitialSpawnsForWave(w), InitialStagger)

\* spawnWaveEnemies without the clearTimeout before the new batch timer
spawnWaveEnemies_Mutant(s, count, batchDelay) ==
    LET actualCount == Min(count, s.enemiesRemaining)
    IN Bind(ScheduleStaggered([s EXCEPT !.timeSinceLastSpawn = 0],
                              "spawn", actualCount, SpawnStagger),
            LAMBDA s1 :
           IF s1.enemiesRemaining > 0
           THEN [SetTimeout(s1, "batch", batchDelay, 1, 0)
                    EXCEPT !.nextSpawnTimeout = FreshTimerId(s1)]
           ELSE s1)

\* EnemySystem.spawnWaveEnemies(count); batchDelay is 4000 + Math.random() * 4000
spawnWaveEnemies(s, count, batchDelay) ==
    LET actualCount == Min(count, s.enemiesRemaining)
    IN Bind(ScheduleStaggered([s EXCEPT !.timeSinceLastSpawn = 0],
                              "spawn", actualCount, SpawnStagger),
            LAMBDA s1 :
       Bind(IF s1.nextSpawnTimeout # NoTimer
            THEN ClearTimeout(s1, s1.nextSpawnTimeout) ELSE s1,
            LAMBDA s2 :
           IF s1.enemiesRemaining > 0
           THEN [SetTimeout(s2, "batch", batchDelay, 1, 0)
                    EXCEPT !.nextSpawnTimeout = FreshTimerId(s2)]
           ELSE s1))

\* EnemySystem.spawnEnemy(); outcome says whether and where the construction
\* throws
spawnEnemy(s, outcome, type, variation, position) ==
    LET attributes == ScaledAttributes(type, variation, s.waveNumber)
        id == FreeSlot(s)
        constructed == registerEnemy(
            [s EXCEPT !.enemyUnits[id] = NewEnemyUnit(attributes, position)], id)
        pinned == [constructed EXCEPT
            !.enemyUnits[id].target = TargetOrPlayer(s.objective),
            !.enemyUnits[id].state = "chase",
            !.enemyUnits[id].velocity =
                Sign(ObjectivePosition - position) * attributes.speed]
    IN CASE outcome = "throwBeforeRegister" -> s
         [] outcome = "throwAfterRegister" -> constructed
         [] OTHER -> Emit([pinned EXCEPT !.enemies = Append(@, id)],
                          "enemySpawned", id)

\* the callback spawnWaveEnemies schedules for each enemy of a batch
SpawnCallback(s, outcome, type, variation, position) ==
    [spawnEnemy(s, outcome, type, variation, position)
        EXCEPT !.enemiesRemaining = @ - 1]

\* the callback behind nextSpawnTimeout
BatchCallback(s, batchDelay) ==
    LET s1 == [s EXCEPT !.nextSpawnTimeout = NoTimer]
    IN spawnWaveEnemies(s1, BatchSize(s1.waveNumber, s1.enemiesRemaining),
                        batchDelay)

\* the callbacks startNextWave schedules for the initial burst
InitialCallback(s, batchDelay) == spawnWaveEnemies(s, 1, batchDelay)

\* mutant: a completed wave pays no reward
completeWave_Mutant(s) ==
    Publish([s EXCEPT !.timers = ClearTimeout(s, s.nextSpawnTimeout).timers,
                      !.nextSpawnTimeout = NoTimer,
                      !.enemies = <<>>,
                      !.enemyUnits = [i \in DOMAIN @ |-> NoEnemy],
                      !.waveInProgress = FALSE,
                      !.timeUntilNextWave = 20 + s.waveNumber * 2,
                      !.enemiesRemaining = 0],
            LogEntry("completeWave", Len(s.enemies), s.enemiesRemaining,
                     PendingSpawnCallbacks(s)))

\* EnemySystem.completeWave()
completeWave(s) ==
    LET s0 == Publish(s, LogEntry("completeWave", Len(s.enemies),
                                  s.enemiesRemaining, PendingSpawnCallbacks(s)))
        s1 == IF s0.nextSpawnTimeout # NoTimer
              THEN [ClearTimeout(s0, s0.nextSpawnTimeout)
                       EXCEPT !.nextSpawnTimeout = NoTimer]
              ELSE s0
        woodReward == s.waveNumber * 3 + s.enemiesRemaining * 2
        stoneReward == s.waveNumber + s.enemiesRemaining
    IN Bind(Collect([s1 EXCEPT !.enemies = <<>>]), LAMBDA s2 :
           [s2 EXCEPT !.inventory = addItem(addItem(@, "wood", woodReward),
                                            "stone", stoneReward),
                      !.waveInProgress = FALSE,
                      !.timeUntilNextWave = 20 + s2.waveNumber * 2,
                      !.enemiesRemaining = 0])

\* mutant: no 60 second watchdog
ForceStuckWave_Mutant(s) == s

\* update(), lines 1409-1416: the 60 second watchdog
ForceStuckWave(s) ==
    IF /\ s.waveInProgress
       /\ s.waveElapsedTime # NoTime
       /\ s.waveElapsedTime > WaveTimeout
       /\ Len(s.enemies) = 0
    THEN Publish([s EXCEPT !.enemiesRemaining = 0],
                 LogEntry("forceCompletion", Len(s.enemies), s.enemiesRemaining,
                          PendingSpawnCallbacks(s)))
    ELSE s

\* mutant: the countdown also runs, and starts a wave, while a wave is in
\* progress
WaveMechanics_Mutant(s, deltaTime) ==
    LET counted == [s EXCEPT !.timeUntilNextWave = @ - deltaTime]
    IN Bind(IF s.waveInProgress /\ Len(s.enemies) = 0 /\ s.enemiesRemaining = 0
            THEN completeWave(s)
            ELSE IF counted.timeUntilNextWave <= 0
                 THEN startNextWave(counted) ELSE counted,
            LAMBDA s1 :
           IF s1.timeUntilNextWave <= 0 /\ ~s1.waveInProgress
           THEN startNextWave(s1) ELSE s1)

\* update(), lines 1418-1440: completion check, countdown, next wave
WaveMechanics(s, deltaTime) ==
    LET counted == [s EXCEPT !.timeUntilNextWave = @ - deltaTime]
    IN Bind(IF s.waveInProgress
            THEN IF Len(s.enemies) = 0 /\ s.enemiesRemaining = 0
                 THEN completeWave(s) ELSE s
            ELSE IF counted.timeUntilNextWave <= 0
                 THEN startNextWave(counted) ELSE counted,
            LAMBDA s1 :
           IF s1.timeUntilNextWave <= 0 /\ ~s1.waveInProgress
           THEN startNextWave(s1) ELSE s1)

\* update(), lines 1442-1458: the 30 second watchdog
FlushStuckSpawn(s, batchDelay) ==
    IF /\ s.waveInProgress
       /\ s.nextSpawnTimeout # NoTimer
       /\ s.timeSinceLastSpawn # NoTime
       /\ s.timeSinceLastSpawn > SpawnStallTimeout
    THEN Bind([ClearTimeout(s, s.nextSpawnTimeout)
                  EXCEPT !.nextSpawnTimeout = NoTimer],
              LAMBDA cleared :
             IF cleared.enemiesRemaining > 0
             THEN spawnWaveEnemies(cleared, cleared.enemiesRemaining, batchDelay)
             ELSE IF Len(cleared.enemies) = 0 THEN completeWave(cleared)
                  ELSE cleared)
    ELSE s

\* update(), lines 1478-1490: entries of dead enemies are disposed and spliced
CleanUpInvalid(s) ==
    [s EXCEPT !.enemies = SelectSeq(@, LAMBDA id : s.enemyUnits[id].isAlive)]

\* update(), lines 1493-1562: one iteration of the loop over the roster
UpdateEnemyAt(s, i, deltaTime, loot) ==
    LET id == s.enemies[i]
        u == s.enemyUnits[id]
        died == die(s, id, loot)
        credited == IF died.loot # NoLoot
                    THEN [died.s EXCEPT !.inventory =
                             addResource(@, died.loot.type, died.loot.amount)]
                    ELSE died.s
        removed == IF i <= Len(credited.enemies)
                   THEN [credited EXCEPT !.enemies = Splice(@, i)]
                   ELSE credited
        aimed == [s EXCEPT !.enemyUnits[id].target = TargetOrPlayer(s.objective),
                           !.enemyUnits[id].state =
                               IF @ # "attack" THEN "chase" ELSE @]
    IN IF i > Len(s.enemies) THEN s
       ELSE IF ~u.isAlive THEN EmitRemoved(removed, id)
       ELSE Bind(EnemyUnitUpdate(aimed, id, deltaTime), LAMBDA updated :
                LET v == updated.enemyUnits[id]
                IN IF Abs(v.velocity) < 5
                   THEN [updated EXCEPT !.enemyUnits[id].velocity =
                            Sign(ObjectivePosition - v.position) * v.speed]
                   ELSE updated)

RECURSIVE UpdateEnemies(_, _, _, _)
UpdateEnemies(s, i, deltaTime, loot) ==
    IF i < 1 THEN s
    ELSE Bind(UpdateEnemyAt(s, i, deltaTime, loot),
              LAMBDA s1 : UpdateEnemies(s1, i - 1, deltaTime, loot))

\* mutant: the completion check runs before the 60 second watchdog
update_Mutant(s, deltaTime, batchDelay, loot) ==
    Bind(WaveMechanics(s, deltaTime), LAMBDA s1 :
    Bind(ForceStuckWave(s1), LAMBDA s2 :
    Bind(FlushStuckSpawn(s2, batchDelay), LAMBDA s3 :
    Bind(CleanUpInvalid(s3), LAMBDA s4 :
        Collect(UpdateEnemies(s4, Len(s4.enemies), deltaTime, loot))))))

\* EnemySystem.update(deltaTime)
update(s, deltaTime, batchDelay, loot) ==
    Bind(ForceStuckWave(s), LAMBDA s1 :
    Bind(WaveMechanics(s1, deltaTime), LAMBDA s2 :
    Bind(FlushStuckSpawn(s2, batchDelay), LAMBDA s3 :
    Bind(CleanUpInvalid(s3), LAMBDA s4 :
        Collect(UpdateEnemies(s4, Len(s4.enemies), deltaTime, loot))))))

(***************************************************************************)
(* AnimalUnit                                                              *)
(***************************************************************************)
\* UnitSystem.unitTypes; speed and attackRange in tenths of a world unit
unitTypes ==
    [wolf |-> [health |-> 100, damage |-> 15, speed |-> 60, attackRange |-> 15, cost |-> 10],
     bear |-> [health |-> 200, damage |-> 25, speed |-> 40, attackRange |-> 20, cost |-> 20],
     eagle |-> [health |-> 80, damage |-> 12, speed |-> 80, attackRange |-> 10, cost |-> 15],
     fox |-> [health |-> 90, damage |-> 10, speed |-> 70, attackRange |-> 12, cost |-> 12],
     deer |-> [health |-> 120, damage |-> 8, speed |-> 90, attackRange |-> 10, cost |-> 10]]

\* an allied unit keeps positions in tenths of a world unit on the line
\* through the Objective, and times in tenths of a second
UnitSecond == 10
NoTarget == 0
NoPoint == -100000
\* the value of a counter that the constructor leaves undefined once a number
\* has been added to it; every comparison with it is false
NaN == -1
Plus(a, d) == IF a = NaN THEN NaN ELSE a + d
AtLeast(a, b) == a # NaN /\ a >= b

\* new AnimalUnit(scene, player, world, type, position, attributes) with the
\* attributes UnitSystem.spawnUnit passes (no vision: the default applies).
\* sinceHit is the time since the unit last called takeDamage on a target;
\* sinceCheck is the update time since the last stuck check (or since
\* construction) and checkedAt the position the unit had then.
NewAnimalUnit(type) ==
    [type |-> type, health |-> unitTypes[type].health,
     maxHealth |-> unitTypes[type].health,
     damage |-> unitTypes[type].damage, speed |-> unitTypes[type].speed,
     vision |-> DefaultVision, attackRange |-> unitTypes[type].attackRange,
     state |-> "wandering", target |-> NoTarget,
     pathfindingTimer |-> 0, wanderTimer |-> 0, wanderPoint |-> NoPoint,
     stuckCheckTimer |-> 0, position |-> 0, lastPosition |-> 0,
     sinceHit |-> NoTime, sinceCheck |-> 0, checkedAt |-> 0,
     revision |-> "combat", physicsEnabled |-> FALSE]

\* the other AnimalUnit of the repository (part_001:460): its constructor
\* sets neither stuckCheckTimer, lastPosition, pathfindingTimer nor
\* wanderTimer, and wanderDuration is 0
NewPhysicsAnimalUnit(type, physicsEnabled) ==
    [NewAnimalUnit(type) EXCEPT !.state = "wander",
                                !.pathfindingTimer = NaN, !.wanderTimer = NaN,
                                !.stuckCheckTimer = NaN,
                                !.lastPosition = NoPoint,
                                !.revision = "physics",
                                !.physicsEnabled = physicsEnabled]

\* AnimalUnit.takeDamage(amount)
AnimalTakeDamage(u, amount) ==
    LET health == u.health - amount
    IN [u EXCEPT !.health = IF health <= 0 THEN 0 ELSE health]

isDead(u) == u.health <= 0

\* AnimalUnit.setRandomWanderPoint(): the angle and the radius are random;
\* offset is the point they give, relative to the unit
setRandomWanderPoint(s, offset) ==
    Publish([s EXCEPT !.agent.wanderPoint = s.agent.position + offset],
            LogEntry("wanderPoint", 0, offset, 0))

\* AnimalUnit.checkIfStuck()
checkIfStuck(s, offset) ==
    LET u == s.agent
        distanceMoved == Abs(u.position - u.lastPosition)
        s1 == IF distanceMoved < StuckDistance /\ u.state # "attacking"
              THEN IF u.state = "wandering" THEN setRandomWanderPoint(s, offset)
                   ELSE IF u.state = "seeking"
                        THEN setRandomWanderPoint(
                                 [s EXCEPT !.agent.state = "wandering"], offset)
                        ELSE s
              ELSE s
    IN Publish([s1 EXCEPT !.agent.lastPosition = u.position,
                          !.agent.sinceCheck = 0,
                          !.agent.checkedAt = u.position],
               LogEntry("checkIfStuck", 0, distanceMoved, 0))

\* `position.add(direction * speed * deltaTime)`, direction normalised
StepToward(u, point, deltaTime) ==
    u.position + Sign(point - u.position) * ((u.speed * deltaTime) \div UnitSecond)

\* the enemies scene.traverse finds once context.getEnemies() is empty: an
\* enemy stays in the scene until the death animation calls dispose()
SceneEnemies(s, disposed) ==
    SelectSeq([i \in 1..MaxEnemies |-> i],
              LAMBDA id : s.enemyUnits[id] # NoEnemy
                          /\ (s.enemyUnits[id].isAlive \/ ~disposed))

\* AnimalUnit.findNearbyEnemies().  EnemyUnit defines getPosition and no
\* isDead, so no enemy of either list is skipped as dead.
findNearbyEnemies(s, offset, disposed) ==
    LET u == s.agent
        enemyList == IF Len(s.enemies) > 0 THEN s.enemies
                     ELSE SceneEnemies(s, disposed)
        Distance(k) == Abs(u.position - s.enemyUnits[enemyList[k]].position)
        seen == {k \in 1..Len(enemyList) : Distance(k) < u.vision}
        closest == CHOOSE k \in seen :
                       \A j \in seen : Distance(k) < Distance(j)
                                       \/ (Distance(k) = Distance(j) /\ k <= j)
    IN IF seen # {}
       THEN Publish([s EXCEPT !.agent.target = enemyList[closest],
                              !.agent.state = "attacking"],
                    LogEntry("targetFound", enemyList[closest], Distance(closest), 0))
       ELSE IF u.state # "wandering"
            THEN setRandomWanderPoint([s EXCEPT !.agent.state = "wandering"], offset)
            ELSE s

\* AnimalUnit.updateWandering(deltaTime)
updateWandering(s, deltaTime, offset) ==
    LET s1 == IF s.agent.wanderPoint = NoPoint
              THEN setRandomWanderPoint(s, offset) ELSE s
        timer == Plus(s1.agent.wanderTimer, deltaTime)
        s2 == IF AtLeast(timer, WanderDuration)
              THEN setRandomWanderPoint([s1 EXCEPT !.agent.wanderTimer = 0], offset)
              ELSE [s1 EXCEPT !.agent.wanderTimer = timer]
        u == s2.agent
        distance == Abs(u.wanderPoint - u.position)
    IN IF distance < ArrivalDistance
       THEN setRandomWanderPoint([s2 EXCEPT !.agent.wanderTimer = 0], offset)
       ELSE [s2 EXCEPT !.agent.position = StepToward(u, u.wanderPoint, deltaTime)]

\* AnimalUnit.updateAttacking(deltaTime).  The target is an EnemyUnit: it has
\* no isDead function, so targetIsDead is false for it, and it has
\* getPosition and takeDamage.
updateAttacking(s, deltaTime, loot) ==
    LET u == s.agent
        targetIsDead == u.target = NoTarget
        targetPosition == s.enemyUnits[u.target].position
        distance == Abs(targetPosition - u.position)
        amount == (u.damage * deltaTime) \div UnitSecond
    IN IF targetIsDead
       THEN [s EXCEPT !.agent.target = NoTarget, !.agent.state = "wandering",
                      !.agent.wanderTimer = 0]
       ELSE IF distance < AttackReach
            THEN Publish([takeDamage(s, u.target, amount, loot)
                             EXCEPT !.agent.sinceHit = 0],
                         LogEntry("unitAttack", u.target, amount, u.sinceHit))
            ELSE [s EXCEPT !.agent.position = StepToward(u, targetPosition, deltaTime)]

\* the perception tick at the end of update()
LookForEnemies(s, deltaTime, offset, disposed) ==
    LET timer == Plus(s.agent.pathfindingTimer, deltaTime)
    IN IF AtLeast(timer, PathfindingInterval)
       THEN findNearbyEnemies(
                Publish([s EXCEPT !.agent.pathfindingTimer = 0],
                        LogEntry("perceptionTick", 0, 0, 0)), offset, disposed)
       ELSE [s EXCEPT !.agent.pathfindingTimer = timer]

\* the stuck check at the head of update()
StuckCheck(s, deltaTime, offset) ==
    LET timer == Plus(s.agent.stuckCheckTimer, deltaTime)
    IN IF AtLeast(timer, StuckCheckInterval)
       THEN [checkIfStuck(s, offset) EXCEPT !.agent.stuckCheckTimer = 0]
       ELSE [s EXCEPT !.agent.stuckCheckTimer = timer]

\* AnimalUnit.updateSeeking(deltaTime) of a unit without a target
updateSeeking(s, offset, disposed) ==
    LET sought == findNearbyEnemies(s, offset, disposed)
    IN IF sought.agent.target = NoTarget
       THEN setRandomWanderPoint([sought EXCEPT !.agent.state = "wandering"], offset)
       ELSE sought

\* AnimalUnit.update(deltaTime) of part_002.  updateSeeking calls
\* target.isDead() unguarded: with an EnemyUnit as target the call throws
\* and the rest of update is skipped.
CombatUpdate(s, deltaTime, offset, loot, disposed) ==
    LET s1 == StuckCheck(s, deltaTime, offset)
        state == s1.agent.state
        s2 == CASE state = "attacking" -> updateAttacking(s1, deltaTime, loot)
                [] state = "wandering" -> updateWandering(s1, deltaTime, offset)
                [] state = "seeking" -> updateSeeking(s1, offset, disposed)
                [] OTHER -> s1
    IN IF state = "seeking" /\ s1.agent.target # NoTarget THEN s1
       ELSE LookForEnemies(s2, deltaTime, offset, disposed)

\* AnimalUnit.update(deltaTime) of part_001: `body` is the position the
\* physics body reports when physics is enabled
PhysicsUpdate(s, deltaTime, offset, disposed, body) ==
    LET s1 == StuckCheck(s, deltaTime, offset)
        s2 == IF s1.agent.state = "wander"
              THEN updateWandering(s1, deltaTime, offset) ELSE s1
        u == s2.agent
        arrived == Abs(u.wanderPoint - u.position) < ArrivalDistance
        s3 == IF u.state = "wander" /\ arrived
              THEN setRandomWanderPoint(s2, offset) ELSE s2
        moved == IF u.physicsEnabled THEN body
                 ELSE IF u.state = "wander"
                      THEN StepToward(u, u.wanderPoint, deltaTime)
                      ELSE u.position
    IN LookForEnemies([s3 EXCEPT !.agent.position = moved],
                      deltaTime, offset, disposed)

\* unit.update(deltaTime), with the clocks the claims are stated over
AnimalUnitUpdate(s, deltaTime, offset, loot, disposed, body) ==
    LET u == s.agent
        clocked == [s EXCEPT
            !.agent.sinceHit = Elapse(@, deltaTime, AttackCooldown * UnitSecond),
            !.agent.sinceCheck = Saturate(@ + deltaTime, StuckCheckInterval)]
    IN IF u.revision = "combat"
       THEN CombatUpdate(clocked, deltaTime, offset, loot, disposed)
       ELSE PhysicsUpdate(clocked, deltaTime, offset, disposed, body)

\* InventorySystem defines no hasItem: `this.inventorySystem.hasItem(...)`
\* throws a TypeError
hasItem(inv, type, amount) == "TypeError"

\* hasItem(type, amount) of an inventory collaborator that provides it, as
\* the interface UnitSystem is written against does: whether `amount` of
\* `type` are held
CollaboratorHasItem(inv, type, amount) ==
    IF type \in DOMAIN inv /\ inv[type] >= amount THEN "true" ELSE "false"

\* this.inventorySystem.hasItem(type, amount), for the InventorySystem of this
\* repository or for a collaborator that provides hasItem
HasItemOf(inventorySystem, inv, type, amount) ==
    IF inventorySystem = "InventorySystem" THEN hasItem(inv, type, amount)
    ELSE CollaboratorHasItem(inv, type, amount)

\* UnitSystem.spawnUnit(unitType, position) of a UnitSystem constructed with
\* the given inventorySystem: what the call returns
\* ("null", "unit") or "throws", the inventory and the roster after it.
\* `constructed` is the outcome of `new AnimalUnit(...)`, "ok" or "throws";
\* the cost is deducted before the try block, and the catch returns null.
spawnUnitVia(inventorySystem, s, unitType, position, constructed) ==
    IF unitType \notin DOMAIN unitTypes THEN [s |-> s, result |-> "null"]
    ELSE LET cost == unitTypes[unitType].cost
             enough == HasItemOf(inventorySystem, s.inventory, "wood", cost)
             paid == [s EXCEPT !.inventory = removeItem(@, "wood", cost)]
             unit == [NewAnimalUnit(unitType) EXCEPT !.position = position,
                                                     !.lastPosition = position,
                                                     !.checkedAt = position]
         IN IF enough = "TypeError" THEN [s |-> s, result |-> "throws"]
            ELSE IF enough = "false" THEN [s |-> s, result |-> "null"]
            ELSE IF constructed = "throws" THEN [s |-> paid, result |-> "null"]
            ELSE [s |-> [paid EXCEPT !.units = Append(@, unit)],
                  result |-> "unit"]

\* UnitSystem.spawnUnit as Game constructs the UnitSystem, with the
\* InventorySystem of this repository
spawnUnit(s, unitType, position) ==
    spawnUnitVia("InventorySystem", s, unitType, position, "ok")

\* UnitSystem.update(deltaTime) from index i down: a dead unit is disposed
\* and spliced out of the roster, any other unit is updated.  The unit under
\* update is s.units[i]; its update sees it as `agent`.
RECURSIVE UnitSystemUpdateFrom(_, _, _, _, _)
UnitSystemUpdateFrom(s, i, deltaTime, offset, loot) ==
    IF i < 1 THEN s
    ELSE LET unit == s.units[i]
             held == s.agent
             updated == AnimalUnitUpdate([s EXCEPT !.agent = unit], deltaTime,
                            offset, loot, FALSE,
                            StepToward(unit, unit.wanderPoint, deltaTime))
             s1 == IF isDead(unit)
                   THEN Publish([s EXCEPT !.units = Splice(@, i)],
                                LogEntry("dispose", i, 0, 0))
                   ELSE Publish([updated EXCEPT !.units[i] = updated.agent,
                                                !.agent = held],
                                LogEntry("unitUpdated", i, 0, 0))
         IN Bind(s1, LAMBDA v :
                UnitSystemUpdateFrom(v, i - 1, deltaTime, offset, loot))

\* the same loop run from the first unit up, the index advancing after a
\* splice as after an update
RECURSIVE UnitSystemUpdateUpFrom(_, _, _, _, _)
UnitSystemUpdateUpFrom(s, i, deltaTime, offset, loot) ==
    IF i > Len(s.units) THEN s
    ELSE LET unit == s.units[i]
             held == s.agent
             updated == AnimalUnitUpdate([s EXCEPT !.agent = unit], deltaTime,
                            offset, loot, FALSE,
                            StepToward(unit, unit.wanderPoint, deltaTime))
             s1 == IF isDead(unit)
                   THEN Publish([s EXCEPT !.units = Splice(@, i)],
                                LogEntry("dispose", i, 0, 0))
                   ELSE Publish([updated EXCEPT !.units[i] = updated.agent,
                                                !.agent = held],
                                LogEntry("unitUpdated", i, 0, 0))
         IN Bind(s1, LAMBDA v :
                UnitSystemUpdateUpFrom(v, i + 1, deltaTime, offset, loot))

UnitSystemUpdate_Mutant(s, deltaTime, offset, loot) ==
    UnitSystemUpdateUpFrom(s, 1, deltaTime, offset, loot)

UnitSystemUpdate(s, deltaTime, offset, loot) ==
    UnitSystemUpdateFrom(s, Len(s.units), deltaTime, offset, loot)

(***************************************************************************)
(* World: the terrain chunks around the observer.  Lengths are in          *)
(* sixteenths of a world unit, so that the 32 cells of a 50-unit chunk are *)
(* 25 wide; a height returned by getHeightAt is in units of 1/625, the     *)
(* product of the two fractional weights of the interpolation.             *)
(***************************************************************************)
Fixed(m) == 16 * m
CellSize == Fixed(ChunkSize) \div TerrainResolution
VerticesPerSide == TerrainResolution + 1

NoCoords == <<>>
NoChunk == [free |-> TRUE]
NoHeightMap == <<>>
UndefinedKey == <<>>

\* new World(scene, context); simplex stands for the SimplexNoise instance
NewWorld ==
    [chunks |-> <<>>, lastPlayerChunkCoords |-> NoCoords, objects |-> <<>>,
     physicsEnabled |-> FALSE, terrainBodies |-> {}, simplex |-> 1]

\* the key `${chunkX},${chunkZ}`
ChunkKey(chunkX, chunkZ) == <<chunkX, chunkZ>>

\* Map.prototype.has / get / set / delete; a Map keeps its entries in
\* insertion order
MapHas(m, key) == \E i \in 1..Len(m) : m[i].key = key

MapGet(m, key) ==
    IF MapHas(m, key) THEN m[CHOOSE i \in 1..Len(m) : m[i].key = key].value
    ELSE NoChunk

MapSet(m, key, value) ==
    IF MapHas(m, key)
    THEN [i \in 1..Len(m) |-> IF m[i].key = key
                              THEN [key |-> key, value |-> value] ELSE m[i]]
    ELSE Append(m, [key |-> key, value |-> value])

MapDelete(m, key) == SelectSeq(m, LAMBDA e : e.key # key)

\* the key of the chunk that contains a position
ChunkKeyOf(position) ==
    ChunkKey(position[1] \div Fixed(ChunkSize), position[2] \div Fixed(ChunkSize))

\* World.getNoiseHeight(x, z): three octaves of simplex noise, a function of
\* the position fixed by the instance
getNoiseHeight(w, x, z) ==
    ((w.simplex * (x \div CellSize) + 3 * (z \div CellSize)) % 7) - 3

\* the local array heightMap that generateTerrainForChunk fills, one sample
\* per vertex of the PlaneGeometry, row by row
TerrainHeightMap(w, chunkX, chunkZ) ==
    [i \in 0..(VerticesPerSide * VerticesPerSide - 1) |->
        getNoiseHeight(w,
            (i % VerticesPerSide) * CellSize - Fixed(ChunkSize) \div 2
                + chunkX * Fixed(ChunkSize),
            (i \div VerticesPerSide) * CellSize - Fixed(ChunkSize) \div 2
                + chunkZ * Fixed(ChunkSize))]

\* mutant: a query outside the resident chunks answers with a height of its
\* own
getHeightAt_Mutant(w, x, z) == [world |-> w, height |-> 1]

\* World.getHeightAt(x, z): the World after the call and the value returned
getHeightAt(w, x, z) ==
    LET chunkX == x \div Fixed(ChunkSize)
        chunkZ == z \div Fixed(ChunkSize)
        chunk == MapGet(w.chunks, ChunkKey(chunkX, chunkZ))
        localX == x - chunkX * Fixed(ChunkSize)
        localZ == z - chunkZ * Fixed(ChunkSize)
        x0 == localX \div CellSize
        z0 == localZ \div CellSize
        x1 == Min(x0 + 1, TerrainResolution - 1)
        z1 == Min(z0 + 1, TerrainResolution - 1)
        fracX == localX % CellSize
        fracZ == localZ % CellSize
        h00 == chunk.heightMap[x0 + z0 * TerrainResolution]
        h10 == chunk.heightMap[x1 + z0 * TerrainResolution]
        h01 == chunk.heightMap[x0 + z1 * TerrainResolution]
        h11 == chunk.heightMap[x1 + z1 * TerrainResolution]
        hx0 == h00 * (CellSize - fracX) + h10 * fracX
        hx1 == h01 * (CellSize - fracX) + h11 * fracX
        finalHeight == hx0 * (CellSize - fracZ) + hx1 * fracZ
    IN [world |-> w,
        height |-> IF chunk = NoChunk THEN 0
                   ELSE IF chunk.heightMap = NoHeightMap THEN 0
                   ELSE IF x0 < 0 \/ x0 >= TerrainResolution
                           \/ z0 < 0 \/ z0 >= TerrainResolution THEN 0
                   ELSE finalHeight]

\* World.generateTerrainForChunk(chunk): the mesh is built from the local
\* heightMap; chunk.heightMap is not assigned.  The physics system exists
\* (Game.init registers it), and the body is stored under chunk.key, a
\* property no chunk has.
generateTerrainForChunk(w, chunk) ==
    [world |-> [w EXCEPT !.physicsEnabled = TRUE,
                         !.terrainBodies = @ \cup {UndefinedKey}],
     chunk |-> [chunk EXCEPT !.sizeX = ChunkSize, !.sizeZ = ChunkSize,
                             !.terrain = "mesh"]]

\* new Tree / new Rock: health, resourceType, resourceAmount, respawnTime
NodeKinds ==
    [tree |-> [health |-> 100, resourceType |-> "wood", resourceAmount |-> 3,
               respawnTime |-> 30],
     rock |-> [health |-> 150, resourceType |-> "stone", resourceAmount |-> 5,
               respawnTime |-> 45]]

\* this.objects, of which the model follows the first MaxObjects entries: the
\* array only grows, at its end
Registry(objects) == SubSeq(objects, 1, Min(Len(objects), MaxObjects))

\* the Tree or Rock object as this.objects holds it: pending is the number of
\* respawn timers set for it that have not run, sinceHarvest is the time
\* since its respawn timer was set (NoTime: no timer), owner and evicted tell
\* which chunk holds it and whether that chunk has been removed
NewNode(at, owner) ==
    [kind |-> at.kind, x |-> at.x, z |-> at.z, y |-> at.y,
     health |-> NodeKinds[at.kind].health, interactionEnabled |-> TRUE,
     sinceHarvest |-> NoTime, pending |-> 0, owner |-> owner, evicted |-> FALSE]

\* the tree or rock populateChunk places at (x, z)
ResourceNode(w, kind, x, z) ==
    [kind |-> kind, x |-> x, z |-> z, y |-> getHeightAt(w, x, z).height]

\* World.populateChunk(chunk)
populateChunk(w, chunk, treeCount, rockCount, offset) ==
    LET worldX == chunk.x * Fixed(ChunkSize)
        worldZ == chunk.z * Fixed(ChunkSize)
        trees == [i \in 1..treeCount |->
                     ResourceNode(w, "tree", worldX + offset.tree[1],
                                  worldZ + offset.tree[2])]
        rocks == [i \in 1..rockCount |->
                     ResourceNode(w, "rock", worldX + offset.rock[1],
                                  worldZ + offset.rock[2])]
        owner == ChunkKey(chunk.x, chunk.z)
    IN Bind(trees \o rocks, LAMBDA nodes :
           [world |-> [w EXCEPT !.objects =
                          Registry(@ \o [i \in DOMAIN nodes |->
                                            NewNode(nodes[i], owner)])],
            chunk |-> [chunk EXCEPT !.objects = nodes]])

\* World.generateChunk(chunkX, chunkZ)
generateChunk(w, chunkX, chunkZ, treeCount, rockCount, offset) ==
    LET chunk == [terrain |-> "null", objects |-> <<>>, heightMap |-> NoHeightMap,
                  x |-> chunkX, z |-> chunkZ, sizeX |-> 0, sizeZ |-> 0]
    IN Bind(generateTerrainForChunk(w, chunk), LAMBDA g :
       Bind(populateChunk(g.world, g.chunk, treeCount, rockCount, offset),
            LAMBDA p :
                [p.world EXCEPT !.chunks =
                    MapSet(@, ChunkKey(chunkX, chunkZ), p.chunk)]))

\* World.removeChunk(chunkKey)
removeChunk(w, chunkKey) ==
    LET chunk == MapGet(w.chunks, chunkKey)
        released == IF w.physicsEnabled /\ chunkKey \in w.terrainBodies
                    THEN [w EXCEPT !.terrainBodies = @ \ {chunkKey}]
                    ELSE w
    IN IF chunk # NoChunk
       THEN [released EXCEPT
                !.chunks = MapDelete(@, chunkKey),
                !.objects = [i \in DOMAIN @ |->
                                IF @[i].owner = chunkKey
                                THEN [@[i] EXCEPT !.evicted = TRUE] ELSE @[i]]]
       ELSE w

\* the keys updateChunksAroundPlayer visits, in the order of its two loops
ActiveChunks(playerChunkX, playerChunkZ) ==
    [k \in 1..((2 * ViewDistance + 1) * (2 * ViewDistance + 1)) |->
        ChunkKey(playerChunkX - ViewDistance + ((k - 1) \div (2 * ViewDistance + 1)),
                 playerChunkZ - ViewDistance + ((k - 1) % (2 * ViewDistance + 1)))]

\* the first loop of updateChunksAroundPlayer: a chunk for every missing key
RECURSIVE GenerateMissing(_, _, _, _, _)
GenerateMissing(w, keys, treeCount, rockCount, offset) ==
    IF keys = <<>> THEN w
    ELSE Bind(IF MapHas(w.chunks, Head(keys)) THEN w
              ELSE generateChunk(w, Head(keys)[1], Head(keys)[2],
                                 treeCount, rockCount, offset),
              LAMBDA w1 :
                  GenerateMissing(w1, Tail(keys), treeCount, rockCount, offset))

\* the second loop: every resident chunk that is not active is removed
RECURSIVE RemoveInactive(_, _, _)
RemoveInactive(w, residents, active) ==
    IF residents = <<>> THEN w
    ELSE Bind(IF Head(residents).key \in active THEN w
              ELSE removeChunk(w, Head(residents).key),
              LAMBDA w1 : RemoveInactive(w1, Tail(residents), active))

\* mutant: the chunks that are too far away stay resident
updateChunksAroundPlayer_Mutant(w, playerChunkX, playerChunkZ, treeCount, rockCount, offset) ==
    GenerateMissing(w, ActiveChunks(playerChunkX, playerChunkZ),
                    treeCount, rockCount, offset)

\* World.updateChunksAroundPlayer(playerChunkX, playerChunkZ)
updateChunksAroundPlayer(w, playerChunkX, playerChunkZ, treeCount, rockCount, offset) ==
    LET activeChunks == ActiveChunks(playerChunkX, playerChunkZ)
    IN Bind(GenerateMissing(w, activeChunks, treeCount, rockCount, offset),
            LAMBDA w1 : RemoveInactive(w1, w1.chunks, Range(activeChunks)))

\* World.update(deltaTime, player), the player at playerPosition
WorldUpdate(w, playerPosition, treeCount, rockCount, offset) ==
    LET currentChunkX == playerPosition[1] \div Fixed(ChunkSize)
        currentChunkZ == playerPosition[2] \div Fixed(ChunkSize)
        currentChunkCoords == ChunkKey(currentChunkX, currentChunkZ)
    IN IF w.lastPlayerChunkCoords # currentChunkCoords
       THEN updateChunksAroundPlayer(
                [w EXCEPT !.lastPlayerChunkCoords = currentChunkCoords],
                currentChunkX, currentChunkZ, treeCount, rockCount, offset)
       ELSE w

\* position.distanceTo(object.getPosition()) < radius, both on the ground
Near(position, node, radius) ==
    (position[1] - node.x) * (position[1] - node.x)
        + (position[2] - node.z) * (position[2] - node.z) < radius * radius

\* InteractiveObject.canInteract()
canInteract(node) == node.interactionEnabled

\* World.checkInteraction(position, radius): the index in this.objects of the
\* object returned, 0 for null
checkInteraction(w, position, radius) ==
    LET hits == {i \in DOMAIN w.objects :
                    Near(position, w.objects[i], radius) /\ canInteract(w.objects[i])}
    IN IF hits = {} THEN 0 ELSE CHOOSE i \in hits : \A j \in hits : i <= j

\* World.getObjectsNear(position, radius), as indices in this.objects
getObjectsNear(w, position, radius) ==
    {i \in DOMAIN w.objects : Near(position, w.objects[i], radius)}

\* mutant: a node harvested to the end stays open to interaction
interact_NoDisable(node) ==
    LET kind == NodeKinds[node.kind]
        health == node.health - HarvestDamage
    IN IF ~canInteract(node)
       THEN [node |-> node, reward |-> NoLoot, scheduled |-> FALSE]
       ELSE IF health <= 0
       THEN [node |-> [node EXCEPT !.health = health,
                                   !.sinceHarvest = 0,
                                   !.pending = @ + 1],
             reward |-> [type |-> kind.resourceType, amount |-> kind.resourceAmount],
             scheduled |-> TRUE]
       ELSE [node |-> [node EXCEPT !.health = health],
             reward |-> [type |-> kind.resourceType, amount |-> 1],
             scheduled |-> FALSE]

\* mutant: a harvested node can still be harvested
interact_Mutant(node) ==
    LET kind == NodeKinds[node.kind]
        health == node.health - HarvestDamage
    IN IF health <= 0
       THEN [node |-> [node EXCEPT !.health = health,
                                   !.interactionEnabled = FALSE,
                                   !.sinceHarvest = 0,
                                   !.pending = @ + 1],
             reward |-> [type |-> kind.resourceType, amount |-> kind.resourceAmount],
             scheduled |-> TRUE]
       ELSE [node |-> [node EXCEPT !.health = health],
             reward |-> [type |-> kind.resourceType, amount |-> 1],
             scheduled |-> FALSE]

\* Tree.interact() / Rock.interact(): the node after the call, the value
\* returned and whether a respawn timer was set
interact(node) ==
    LET kind == NodeKinds[node.kind]
        health == node.health - HarvestDamage
    IN IF ~canInteract(node)
       THEN [node |-> node, reward |-> NoLoot, scheduled |-> FALSE]
       ELSE IF health <= 0
       THEN [node |-> [node EXCEPT !.health = health,
                                   !.interactionEnabled = FALSE,
                                   !.sinceHarvest = 0,
                                   !.pending = @ + 1],
             reward |-> [type |-> kind.resourceType, amount |-> kind.resourceAmount],
             scheduled |-> TRUE]
       ELSE [node |-> [node EXCEPT !.health = health],
             reward |-> [type |-> kind.resourceType, amount |-> 1],
             scheduled |-> FALSE]

\* mutant: a respawned node comes back with the health of a tree
respawn_Mutant(node) ==
    [node EXCEPT !.health = NodeKinds.tree.health - HarvestDamage,
                 !.interactionEnabled = TRUE, !.sinceHarvest = NoTime]

\* Tree.respawn() / Rock.respawn(), run by the timer of interact
respawn(node) ==
    [node EXCEPT !.health = NodeKinds[node.kind].health,
                 !.interactionEnabled = TRUE, !.sinceHarvest = NoTime]

\* Game.checkInteractions(), the action key pressed
checkInteractions(s, playerPos) ==
    LET i == checkInteraction(s.world, playerPos, InteractionRange)
    IN IF i = 0 THEN Publish(s, LogEntry("checkInteraction", 0, 0, 0))
       ELSE Bind(interact(s.world.objects[i]), LAMBDA r :
                Publish([s EXCEPT !.world.objects[i] = r.node,
                                  !.inventory = IF r.reward # NoLoot
                                                THEN addItem(@, r.reward.type,
                                                             r.reward.amount)
                                                ELSE @],
                        LogEntry("interact", i, r.reward.amount, r.node.health)))

(***************************************************************************)
(* Initial state: Game.init() has created the Objective, the systems and   *)
(* the starting resources; no wave has started.                            *)
(***************************************************************************)
LootChoices == {[type |-> "wood", amount |-> 1], [type |-> "stone", amount |-> 3]}

Constructed ==
    [waveNumber |-> 0, enemiesRemaining |-> 0, waveInProgress |-> FALSE,
     timeUntilNextWave |-> FirstWaveDelay,
     waveElapsedTime |-> NoTime, timeSinceLastSpawn |-> NoTime,
     nextSpawnTimeout |-> NoTimer, timers |-> <<>>,
     enemies |-> <<>>, enemyUnits |-> [i \in 1..MaxEnemies |-> NoEnemy],
     inventory |-> [wood |-> StartingWood, stone |-> StartingStone],
     objective |-> [health |-> ObjectiveMaxHealth, maxHealth |-> ObjectiveMaxHealth],
     agent |-> NoAgent, units |-> <<>>, spawnAttempts |-> 0,
     world |-> NewWorld, listeners |-> <<>>, log |-> <<>>]

StartIn(s) ==
    /\ waveNumber = s.waveNumber
    /\ enemiesRemaining = s.enemiesRemaining
    /\ waveInProgress = s.waveInProgress
    /\ timeUntilNextWave = s.timeUntilNextWave
    /\ waveElapsedTime = s.waveElapsedTime
    /\ timeSinceLastSpawn = s.timeSinceLastSpawn
    /\ nextSpawnTimeout = s.nextSpawnTimeout
    /\ timers = s.timers
    /\ enemies = s.enemies
    /\ enemyUnits = s.enemyUnits
    /\ inventory = s.inventory
    /\ objective = s.objective
    /\ agent = s.agent
    /\ units = s.units
    /\ spawnAttempts = s.spawnAttempts
    /\ world = s.world
    /\ listeners = s.listeners
    /\ log = s.log

Init == StartIn(Constructed)

(***************************************************************************)
(* Actions                                                                 *)
(***************************************************************************)
\* one frame: Game.gameLoop calls EnemySystem.update(deltaTime)
Update ==
    \E deltaTime \in DeltaTimes, batchDelay \in BatchDelays, loot \in LootChoices :
        \E s \in {update(Cur, deltaTime, batchDelay, loot)} : Install(s)

\* a callback of the initial burst runs
FireInitial ==
    \E j \in 1..Len(timers), batchDelay \in BatchDelays :
        /\ timers[j].kind = "initial"
        /\ MayFire(timers, j)
        /\ Install(InitialCallback([Cur EXCEPT !.timers = TakeCallback(@, j)], batchDelay))

\* a staggered per-enemy callback runs
FireSpawn ==
    \E j \in 1..Len(timers), outcome \in SpawnOutcomes,
       variation \in VariationChoices, position \in SpawnPositions :
        \E type \in AvailableTypes(waveNumber) :
            /\ timers[j].kind = "spawn"
            /\ MayFire(timers, j)
            /\ outcome = "throwBeforeRegister" \/ FreeSlots(Cur) # {}
            /\ Install(SpawnCallback([Cur EXCEPT !.timers = TakeCallback(@, j)],
                                     outcome, type, variation, position))

\* the callback behind nextSpawnTimeout runs
FireBatch ==
    \E j \in 1..Len(timers), batchDelay \in BatchDelays :
        /\ timers[j].kind = "batch"
        /\ MayFire(timers, j)
        /\ Install(BatchCallback([Cur EXCEPT !.timers = TakeCallback(@, j)], batchDelay))

\* the player or an allied unit hits an enemy: enemy.takeDamage(amount)
EnemyTakeDamageOn(id) ==
    \E amount \in DamageAmounts, loot \in LootChoices :
        /\ enemyUnits[id] # NoEnemy
        /\ Install(takeDamage(Cur, id, amount, loot))

EnemyTakeDamage == \E id \in DOMAIN enemyUnits : EnemyTakeDamageOn(id)

\* wall-clock time passes.  The clocks of an enemy are readings of
\* performance.now() against lastAttackTime and _lastMoveTime: they are kept
\* only while the code can still read them (a live enemy; _lastMoveTime once
\* checkStuckStatus has set it).

ElapseEnemy(u, d) ==
    IF u = NoEnemy \/ ~u.isAlive THEN u
    ELSE [u EXCEPT !.sinceAttack = Saturate(@ + d, AttackCooldown),
                   !.sinceMove = IF u.tracked
                                 THEN Saturate(@ + d, StuckJumpAfter + 1) ELSE @]

Advance ==
    \E d \in TimeSteps :
        LET s == [Cur EXCEPT
                !.waveElapsedTime = Elapse(@, d, WaveTimeout + 1),
                !.timeSinceLastSpawn = Elapse(@, d, SpawnStallTimeout + 1),
                !.enemyUnits = [i \in DOMAIN @ |-> ElapseEnemy(@[i], d)]]
        IN /\ [s EXCEPT !.log = log] # [Cur EXCEPT !.log = log]
           /\ Install(s)

Next ==
    \/ Update
    \/ FireInitial
    \/ FireSpawn
    \/ FireBatch
    \/ EnemyTakeDamage
    \/ Advance

Spec == Init /\ [][Next]_vars

(***************************************************************************)
(* SpecLossy: the same program where a scheduled callback may be lost.     *)
(* A lost callback is one that stays pending for ever: no fairness is      *)
(* stated for the timers.  Callbacks a frame schedules beyond MaxTimers    *)
(* are lost at once, so that the bound never holds back a frame.  Frames   *)
(* keep coming (requestAnimationFrame), the clock advances, and every live *)
(* enemy keeps being hit until it dies.                                    *)
(***************************************************************************)
\* the timers with the callback scheduled last taken off
LoseLast(tms) ==
    IF tms[Len(tms)].left <= 1 THEN SubSeq(tms, 1, Len(tms) - 1)
    ELSE [tms EXCEPT ![Len(tms)].left = @ - 1]

RECURSIVE Lose(_)
Lose(tms) ==
    IF PendingCallbacks(tms) <= MaxTimers THEN tms ELSE Lose(LoseLast(tms))

UpdateLossy ==
    \E deltaTime \in DeltaTimes, batchDelay \in BatchDelays, loot \in LootChoices :
        \E s \in {update(Cur, deltaTime, batchDelay, loot)} :
            Install([s EXCEPT !.timers = Lose(@)])

NextLossy ==
    \/ UpdateLossy
    \/ FireInitial
    \/ FireSpawn
    \/ FireBatch
    \/ EnemyTakeDamage
    \/ Advance

Fairness ==
    /\ SF_vars(UpdateLossy)
    /\ WF_vars(Advance)
    /\ \A id \in 1..MaxEnemies : WF_vars(EnemyTakeDamageOn(id))

SpecLossy == Init /\ [][NextLossy]_vars /\ Fairness

(***************************************************************************)
(* SpecDamage: one EnemyUnit and one AnimalUnit, as constructed, under any *)
(* sequence of takeDamage and update calls made on them directly.          *)
(***************************************************************************)
DamageEnemyTypes == {"goblin"}
DamageUnitTypes == {"wolf", "eagle"}
UnitDamageAmounts == {15, 50}

InitDamage ==
    \E type \in DamageEnemyTypes, variation \in DOMAIN enemyVariations,
       w \in 1..MaxWave, position \in SpawnPositions, a \in DamageUnitTypes :
        StartIn([spawnEnemy([Constructed EXCEPT !.waveNumber = w],
                            "ok", type, variation, position)
                    EXCEPT !.agent = NewAnimalUnit(a), !.log = <<>>])

\* enemy.takeDamage(amount), by any caller
EnemyUnitTakeDamage ==
    \E id \in DOMAIN enemyUnits, amount \in UnitDamageAmounts, loot \in LootChoices :
        /\ enemyUnits[id] # NoEnemy
        /\ InstallUnbounded(
               Publish(takeDamage(Cur, id, amount, loot),
                       LogEntry("takeDamage", id,
                                takeDamageReturn(Cur, id, amount), 0)))

\* enemy.update(deltaTime), by any caller
EnemyUnitUpdateCall ==
    \E id \in DOMAIN enemyUnits, deltaTime \in DeltaTimes :
        /\ enemyUnits[id] # NoEnemy
        /\ InstallUnbounded(Publish(EnemyUnitUpdate(Cur, id, deltaTime),
                                    LogEntry("update", id, 0, 0)))

\* unit.takeDamage(amount) on the AnimalUnit
AnimalUnitTakeDamage ==
    \E amount \in UnitDamageAmounts :
        /\ agent # NoAgent
        /\ InstallUnbounded(
               Publish([Cur EXCEPT !.agent = AnimalTakeDamage(@, amount)],
                       LogEntry("unitTakeDamage", 0, amount, 0)))

NextDamage ==
    \/ EnemyUnitTakeDamage
    \/ EnemyUnitUpdateCall
    \/ AnimalUnitTakeDamage

SpecDamage == InitDamage /\ [][NextDamage]_vars

(***************************************************************************)
(* SpecObjective: the Objective under any sequence of takeDamage calls.    *)
(***************************************************************************)
ObjectiveHit ==
    \E amount \in ObjectiveDamageAmounts :
        InstallUnbounded(ObjectiveTakeDamage(Cur, amount))

NextObjective == ObjectiveHit

SpecObjective == Init /\ [][NextObjective]_vars

(***************************************************************************)
(* SpecSchedule: the spawn schedule of one wave, for any wave number.  The *)
(* game is between two waves; update ticks count down and start the next   *)
(* wave, whose callbacks then run.  No frame runs while the wave is in     *)
(* progress, so the schedule is the one startNextWave and spawnWaveEnemies *)
(* produce on their own.                                                   *)
(***************************************************************************)
\* the state completeWave leaves after wave w, every wave so far having been
\* completed with nothing pending (w = 0: the state after construction)
BetweenWaves(w) ==
    IF w = 0 THEN Constructed
    ELSE [Constructed EXCEPT
             !.waveNumber = w,
             !.timeUntilNextWave = 20 + w * 2,
             !.waveElapsedTime = 0,
             !.timeSinceLastSpawn = 0,
             !.inventory = [wood |-> StartingWood + 3 * ((w * (w + 1)) \div 2),
                            stone |-> StartingStone + ((w * (w + 1)) \div 2)]]

InitSchedule == \E w \in 0..MaxStartWave : StartIn(BetweenWaves(w))

\* a frame while no wave is in progress
CountdownTick ==
    \E deltaTime \in DeltaTimes, batchDelay \in BatchDelays, loot \in LootChoices :
        /\ ~waveInProgress
        /\ InstallUnbounded(update(Cur, deltaTime, batchDelay, loot))

ScheduledInitial ==
    \E j \in 1..Len(timers), batchDelay \in BatchDelays :
        /\ timers[j].kind = "initial"
        /\ MayFire(timers, j)
        /\ InstallUnbounded(
               InitialCallback([Cur EXCEPT !.timers = TakeCallback(@, j)], batchDelay))

ScheduledSpawn ==
    \E j \in 1..Len(timers), outcome \in SpawnOutcomes,
       variation \in VariationChoices, position \in SpawnPositions :
        \E type \in {"goblin"} :
            /\ timers[j].kind = "spawn"
            /\ MayFire(timers, j)
            /\ outcome = "throwBeforeRegister" \/ FreeSlots(Cur) # {}
            /\ InstallUnbounded(
                   SpawnCallback([Cur EXCEPT !.timers = TakeCallback(@, j)],
                                 outcome, type, variation, position))

ScheduledBatch ==
    \E j \in 1..Len(timers), batchDelay \in BatchDelays :
        /\ timers[j].kind = "batch"
        /\ MayFire(timers, j)
        /\ InstallUnbounded(
               BatchCallback([Cur EXCEPT !.timers = TakeCallback(@, j)], batchDelay))

NextSchedule ==
    \/ CountdownTick
    \/ ScheduledInitial
    \/ ScheduledSpawn
    \/ ScheduledBatch

SpecSchedule == InitSchedule /\ [][NextSchedule]_vars

(***************************************************************************)
(* SpecWaves: several waves in a row.  Frames run and the clock advances   *)
(* at any time, the callbacks run in any admissible order, and every spawn *)
(* attempt fails, so that a wave ends by its count alone.                  *)
(***************************************************************************)
WithinWaves(s) ==
    /\ s.waveNumber <= MaxWaveSeq
    /\ PendingCallbacks(s.timers) <= MaxTimersSeq

WaveTick ==
    \E deltaTime \in DeltaTimes, batchDelay \in BatchDelays, loot \in LootChoices :
        \E s \in {update(Cur, deltaTime, batchDelay, loot)} :
            WithinWaves(s) /\ Assign(s)

WaveClock ==
    \E d \in TimeSteps :
        \E s \in {[Cur EXCEPT
                      !.waveElapsedTime = Elapse(@, d, WaveTimeout + 1),
                      !.timeSinceLastSpawn = Elapse(@, d, SpawnStallTimeout + 1)]} :
            /\ [s EXCEPT !.log = log] # [Cur EXCEPT !.log = log]
            /\ Assign(s)

WaveInitial ==
    \E j \in 1..Len(timers), batchDelay \in BatchDelays :
        /\ timers[j].kind = "initial"
        /\ MayFire(timers, j)
        /\ \E s \in {InitialCallback([Cur EXCEPT !.timers = TakeCallback(@, j)],
                                      batchDelay)} :
               WithinWaves(s) /\ Assign(s)

WaveSpawnFails ==
    \E j \in 1..Len(timers), variation \in VariationChoices,
       position \in SpawnPositions :
        /\ timers[j].kind = "spawn"
        /\ MayFire(timers, j)
        /\ Assign(SpawnCallback([Cur EXCEPT !.timers = TakeCallback(@, j)],
                                "throwBeforeRegister", "goblin", variation, position))

WaveBatch ==
    \E j \in 1..Len(timers), batchDelay \in BatchDelays :
        /\ timers[j].kind = "batch"
        /\ MayFire(timers, j)
        /\ \E s \in {BatchCallback([Cur EXCEPT !.timers = TakeCallback(@, j)],
                                    batchDelay)} :
               WithinWaves(s) /\ Assign(s)

NextWaves ==
    \/ WaveTick
    \/ WaveClock
    \/ WaveInitial
    \/ WaveSpawnFails
    \/ WaveBatch

SpecWaves == Init /\ [][NextWaves]_vars

(***************************************************************************)
(* Properties                                                              *)
(***************************************************************************)
Logged(l, ev) == \E i \in 1..Len(l) : l[i].ev = ev
DeadInRoster(id) ==
    /\ id \in Range(enemies)
    /\ enemyUnits[id] # NoEnemy
    /\ ~enemyUnits[id].isAlive

C2_WaveEventuallyCompletes == waveInProgress ~> ~waveInProgress

\* a wave none of whose callbacks ever ran has completed
C2_Witness ==
    /\ ~waveInProgress
    /\ waveNumber >= 1
    /\ Logged(log, "completeWave")
    /\ \E i \in 1..Len(log) :
           /\ log[i].ev = "forceCompletion"
           /\ log[i].r = EnemiesForWave(waveNumber)
           /\ log[i].t = InitialSpawnsForWave(waveNumber)

\* C3: completeWave is invoked only with the roster empty, enemiesRemaining 0
\* and no spawn callback of the running wave still to fire.
C3_CompleteOnlyWhenNothingPending ==
    \A i \in 1..Len(log) :
        log[i].ev = "completeWave" =>
            log[i].n = 0 /\ log[i].r = 0 /\ log[i].t = 0

\* C4: an update tick that finds the wave in progress for more than 60 seconds
\* and the roster empty completes the wave within that tick, whatever
\* enemiesRemaining is.
C4_ForcedCompletionSameTick ==
    [][(waveInProgress /\ waveElapsedTime > WaveTimeout
               /\ Len(enemies) = 0 /\ Update)
          => (~waveInProgress' /\ Logged(log', "completeWave"))]_vars

\* the watchdog has just completed a wave that still counted pending enemies
C4_Witness ==
    /\ ~waveInProgress
    /\ \E i \in 1..Len(log) : log[i].ev = "forceCompletion" /\ log[i].r > 0
    /\ Logged(log, "completeWave")

\* C5: an update tick that finds a batch timer pending more than 30 seconds
\* after the last spawn call ends with enemiesRemaining 0 or the wave
\* completed, and with no batch timer pending.
C5_FlushLeavesNothingPending ==
    [][(waveInProgress /\ nextSpawnTimeout # NoTimer
               /\ timeSinceLastSpawn > SpawnStallTimeout /\ Update)
          => /\ enemiesRemaining' = 0 \/ ~waveInProgress'
             /\ nextSpawnTimeout' = NoTimer
             /\ \A j \in 1..Len(timers') : timers'[j].kind # "batch"]_vars

\* C6: the update pass that follows a kill removes the dead enemy from the
\* roster and credits its loot to the inventory.
C6_DeadRemovedAndLootCredited ==
    [][((\E id \in DOMAIN enemyUnits : DeadInRoster(id)) /\ Update)
          => /\ \A id \in DOMAIN enemyUnits :
                    DeadInRoster(id) => id \notin Range(enemies')
             /\ \E id \in DOMAIN enemyUnits, loot \in LootChoices :
                    /\ DeadInRoster(id)
                    /\ inventory' = addItem(inventory, loot.type, loot.amount)]_vars

\* C7: when a dead enemy leaves the roster, exactly one enemyRemoved event has
\* been published for it since its death.
RemovedEvents(l, id) ==
    Cardinality({i \in 1..Len(l) : l[i].ev = "enemyRemoved" /\ l[i].n = id})

C7_ExactlyOneRemovalEvent ==
    [][\A id \in DOMAIN enemyUnits :
          (DeadInRoster(id) /\ id \notin Range(enemies'))
              => enemyUnits[id].notified + RemovedEvents(log', id) = 1]_vars

\* C8: the health of an EnemyUnit or an AnimalUnit is never below 0.
C8_HealthNeverNegative ==
    /\ \A id \in DOMAIN enemyUnits :
           enemyUnits[id] # NoEnemy => enemyUnits[id].health >= 0
    /\ agent # NoAgent => agent.health >= 0

\* C9: a dead enemy stays dead, and no update or takeDamage call changes its
\* health, position, velocity, target or state.
C9_DeadIsTerminal ==
    [][\A id \in DOMAIN enemyUnits :
          (enemyUnits[id] # NoEnemy /\ ~enemyUnits[id].isAlive)
              => /\ enemyUnits'[id] # NoEnemy
                 /\ ~enemyUnits'[id].isAlive
                 /\ enemyUnits'[id].health = enemyUnits[id].health
                 /\ enemyUnits'[id].position = enemyUnits[id].position
                 /\ enemyUnits'[id].velocity = enemyUnits[id].velocity
                 /\ enemyUnits'[id].target = enemyUnits[id].target
                 /\ enemyUnits'[id].state = enemyUnits[id].state]_vars

\* takeDamage has just been called on a dead enemy (it returned 0) that an
\* earlier hit had brought below 0
C9_Witness ==
    \E id \in DOMAIN enemyUnits :
        /\ enemyUnits[id] # NoEnemy
        /\ ~enemyUnits[id].isAlive
        /\ enemyUnits[id].health < 0
        /\ \E i \in 1..Len(log) :
               log[i].ev = "takeDamage" /\ log[i].n = id /\ log[i].r = 0

\* C10: the Objective's health stays within [0, maxHealth], and
\* objectiveDestroyed fires only on the call that brings the health to 0.
C10_DestroyedExactlyOnce ==
    /\ objective.health >= 0
    /\ objective.health <= objective.maxHealth
    /\ \A i \in 1..Len(log) :
           log[i].ev = "objectiveDestroyed" => log[i].n > 0

\* the initial-burst records of wave w among the timers
InitialRecords(tms, w) ==
    {j \in 1..Len(tms) : tms[j].kind = "initial" /\ tms[j].wave = w}

\* C11: when startNextWave starts wave w, enemiesRemaining becomes
\* min(5 + 2 * w, 30) and exactly min(3 + floor(w / 2), 10) initial spawns
\* are scheduled, the first at once and each next one 500 ms later.
C11_WaveStartSchedule ==
    [][Logged(log', "startNextWave")
          => /\ waveNumber' = waveNumber + 1
             /\ enemiesRemaining' = Min(5 + 2 * waveNumber', 30)
             /\ Cardinality(InitialRecords(timers', waveNumber')) = 1
             /\ \A j \in InitialRecords(timers', waveNumber') :
                    /\ timers'[j].left = Min(3 + (waveNumber' \div 2), 10)
                    /\ timers'[j].delay = 0
                    /\ timers'[j].step = 500]_vars

\* wave 16 has just started: both caps bite (30 enemies, burst of 10)
C11_Witness ==
    /\ Logged(log, "startNextWave")
    /\ waveNumber = 16
    /\ enemiesRemaining = 30
    /\ \E j \in InitialRecords(timers, 16) : timers[j].left = 10

\* the per-enemy spawn callbacks pending among the timers
RECURSIVE SpawnsPending(_)
SpawnsPending(tms) ==
    IF tms = <<>> THEN 0
    ELSE (IF Head(tms).kind = "spawn" THEN Head(tms).left ELSE 0)
         + SpawnsPending(Tail(tms))

BatchPending(tms, id) ==
    \E j \in 1..Len(tms) : tms[j].kind = "batch" /\ tms[j].id = id

\* C12: the callback of a batch timer schedules
\* min(1 + floor(wave / 3), enemiesRemaining, 3) spawns (none if that is not
\* positive), 800 ms apart, and schedules a further batch timer exactly if
\* enemiesRemaining is greater than 0.
C12_BatchSizeAndChaining ==
    [][((\E j \in 1..Len(timers) : timers[j].kind = "batch") /\ ScheduledBatch)
          => LET size == Min(Min(1 + (waveNumber \div 3), enemiesRemaining), 3)
             IN /\ SpawnsPending(timers') = SpawnsPending(timers) + Max(size, 0)
                /\ size > 0 =>
                       /\ timers'[Len(timers') - 1].kind = "spawn"
                       /\ timers'[Len(timers') - 1].left = size
                       /\ timers'[Len(timers') - 1].step = 800
                /\ enemiesRemaining' = enemiesRemaining
                /\ enemiesRemaining > 0 <=>
                       (nextSpawnTimeout' # NoTimer
                           /\ BatchPending(timers', nextSpawnTimeout'))
                /\ enemiesRemaining <= 0 =>
                       \A j \in 1..Len(timers') : timers'[j].kind # "batch"]_vars

\* a batch of three, the cap, has been scheduled in a wave where
\* 1 + floor(wave / 3) is four or more, and the next batch timer is pending
C12_Witness ==
    /\ waveNumber >= 9
    /\ Len(timers) >= 2
    /\ timers[Len(timers) - 1].kind = "spawn"
    /\ timers[Len(timers) - 1].left = 3
    /\ timers[Len(timers)].kind = "batch"
    /\ nextSpawnTimeout = timers[Len(timers)].id

\* a batch timer has run with fewer enemies remaining than the wave's batch
\* size: the batch is the remaining count
C12_WitnessRemainder ==
    /\ waveNumber >= 3
    /\ enemiesRemaining = 1
    /\ Len(timers) >= 2
    /\ timers[Len(timers) - 1].kind = "spawn"
    /\ timers[Len(timers) - 1].left = 1
    /\ timers[Len(timers) - 1].delay = 0
    /\ timers[Len(timers)].kind = "batch"

CompleteWaveCalls(l) == {i \in 1..Len(l) : l[i].ev = "completeWave"}

\* C13: a step that completes wave w calls completeWave once, for a wave that
\* was in progress; with r the enemiesRemaining completeWave reads, the
\* inventory gains 3 * w + 2 * r wood and w + r stone, waveInProgress becomes
\* false and the countdown becomes 20 + 2 * w.
C13_CompletionRewardAndReset ==
    [][\A i \in CompleteWaveCalls(log') :
          /\ waveInProgress
          /\ Cardinality(CompleteWaveCalls(log')) = 1
          /\ waveNumber' = waveNumber
          /\ inventory'.wood = inventory.wood + 3 * waveNumber + 2 * log'[i].r
          /\ inventory'.stone = inventory.stone + waveNumber + log'[i].r
          /\ ~waveInProgress'
          /\ timeUntilNextWave' = 20 + 2 * waveNumber
          /\ enemiesRemaining' = 0]_vars

\* wave 1 has just been completed with nothing pending: 3 wood and 1 stone
\* on top of the starting 25 and 15, next wave in 22 seconds
C13_Witness ==
    /\ \E i \in CompleteWaveCalls(log) : log[i].r = 0 /\ log[i].t = 0
    /\ ~Logged(log, "forceCompletion")
    /\ waveNumber = 1
    /\ inventory = [wood |-> 28, stone |-> 16]
    /\ ~waveInProgress
    /\ timeUntilNextWave = 22

WaveStarts(l) == {i \in 1..Len(l) : l[i].ev = "startNextWave"}

\* C14: waveNumber never decreases and grows by exactly one per call of
\* startNextWave; a step starts at most one wave, and only if no wave was in
\* progress and the countdown has reached 0.
C14_OneWaveAtATime ==
    [][/\ Cardinality(WaveStarts(log')) <= 1
       /\ waveNumber' = waveNumber + Cardinality(WaveStarts(log'))
       /\ WaveStarts(log') # {} =>
              /\ ~waveInProgress
              /\ waveInProgress'
              /\ timeUntilNextWave' <= 0]_vars

\* wave 2 has just started, wave 1 having been completed before
C14_Witness ==
    /\ waveNumber = 2
    /\ waveInProgress
    /\ WaveStarts(log) # {}
    /\ inventory.wood > StartingWood

SpawnedEvents(l) == {i \in 1..Len(l) : l[i].ev = "enemySpawned"}

\* a per-enemy spawn callback has run and spawnEnemy returned null: one
\* callback of a spawn record is gone and spawnEnemy has not reached its own
\* emit of 'enemySpawned' (the second of the two a spawn emits)
FailedSpawnStep ==
    /\ SpawnsPending(timers') = SpawnsPending(timers) - 1
    /\ Cardinality(SpawnedEvents(log')) < 2

\* C15: a spawn attempt that fails still lowers enemiesRemaining by exactly
\* one, adds no enemy to the roster, and leaves the other pending spawns of
\* the wave in place.
C15_FailedSpawnAddsNothing ==
    [][FailedSpawnStep =>
          /\ enemiesRemaining' = enemiesRemaining - 1
          /\ enemies' = enemies
          /\ \E j \in 1..Len(timers) :
                 timers[j].kind = "spawn" /\ timers' = TakeCallback(timers, j)]_vars

\* C15, the part the code keeps: the count goes down by one and the other
\* callbacks stay scheduled, whether or not the roster has grown
C15_FailedSpawnStillCounts ==
    [][FailedSpawnStep =>
          /\ enemiesRemaining' = enemiesRemaining - 1
          /\ waveInProgress' = waveInProgress
          /\ nextSpawnTimeout' = nextSpawnTimeout
          /\ \E j \in 1..Len(timers) :
                 timers[j].kind = "spawn" /\ timers' = TakeCallback(timers, j)]_vars

\* a failed spawn has left its enemy in the roster
C15_FailedSpawnRegistered ==
    /\ Cardinality(SpawnedEvents(log)) = 1
    /\ Len(enemies) = 1
    /\ waveInProgress

LiveEnemies(us) == {id \in DOMAIN us : us[id] # NoEnemy /\ us[id].isAlive}

\* ids a step has spawned: spawnEnemy has emitted its own 'enemySpawned' after
\* the one of registerEnemy
SpawnedNow(l) ==
    {l[i].n : i \in {k \in SpawnedEvents(l) :
                        \E m \in SpawnedEvents(l) : m < k /\ l[m].n = l[k].n}}

C16_PlayerTargetedBetweenTicks ==
    \E id \in LiveEnemies(enemyUnits) :
        IndexOf(enemies, id) # 0 /\ enemyUnits[id].target = "player"

(***************************************************************************)
(* SpecWorld: the observer moves from chunk to chunk, World.update runs,   *)
(* and heights are queried at any time.                                    *)
(***************************************************************************)
PlayerPositions ==
    {<<Fixed(cx * ChunkSize + 10), Fixed(cz * ChunkSize + 10)>> :
        cx \in -MaxObserverChunk..MaxObserverChunk,
        cz \in -MaxObserverChunk..MaxObserverChunk}

\* new Player: this.position = new THREE.Vector3(0, 1, 0)
PlayerStart == <<0, 0>>

\* the first frame finds the player in the chunk where the game has put it
FirstFrameAt(w, playerPosition) ==
    w.lastPlayerChunkCoords = NoCoords =>
        ChunkKeyOf(playerPosition) = ChunkKeyOf(PlayerStart)

InitWorld ==
    \E seed \in NoiseSeeds : StartIn([Constructed EXCEPT !.world.simplex = seed])

\* a frame: the player is at playerPosition and World.update runs
ObserverMoves ==
    \E playerPosition \in PlayerPositions, treeCount \in TreeCounts,
       rockCount \in RockCounts, offset \in NodeOffsets :
        /\ FirstFrameAt(world, playerPosition)
        /\ \E w \in {WorldUpdate(world, playerPosition, treeCount, rockCount, offset)} :
               Assign(Publish([Cur EXCEPT !.world = w],
                              LogEntry("worldUpdate", playerPosition[1],
                                       playerPosition[2], 0)))

\* an agent, the player or a director asks for the height at (x, z)
HeightQuery ==
    \E x \in QueryCoords, z \in QueryCoords :
        \E q \in {getHeightAt(world, x, z)} :
            Assign(Publish([Cur EXCEPT !.world = q.world],
                           LogEntry("getHeightAt", x, z, q.height)))

NextWorld ==
    \/ ObserverMoves
    \/ HeightQuery

SpecWorld == InitWorld /\ [][NextWorld]_vars

\* the keys of the resident chunks, and how often a key is resident
Resident(w) == {w.chunks[i].key : i \in 1..Len(w.chunks)}
Residency(w, key) == Cardinality({i \in 1..Len(w.chunks) : w.chunks[i].key = key})

\* the (2 * viewDistance + 1)^2 square around the chunk of the observer
ViewSquare(position) ==
    LET cx == position[1] \div Fixed(ChunkSize)
        cz == position[2] \div Fixed(ChunkSize)
    IN {<<x, z>> : x \in (cx - ViewDistance)..(cx + ViewDistance),
                   z \in (cz - ViewDistance)..(cz + ViewDistance)}

WorldUpdates(l) == {i \in 1..Len(l) : l[i].ev = "worldUpdate"}

\* C17: after World.update with the observer at any position, the resident
\* chunk keys are exactly those of the square of (2 * viewDistance + 1)^2
\* keys around the observer's chunk, each resident once, whatever moves came
\* before.
C17_ChunkResidency ==
    \A i \in WorldUpdates(log) :
        /\ Resident(world) = ViewSquare(<<log[i].n, log[i].r>>)
        /\ \A key \in Resident(world) : Residency(world, key) = 1
        /\ \A j \in 1..Len(world.chunks) :
               world.chunks[j].key = <<world.chunks[j].value.x, world.chunks[j].value.z>>

\* the observer has moved diagonally from chunk (-1,-1) to chunk (1,1): the
\* far corner was evicted and the new corner generated
C17_Witness ==
    /\ \E i \in WorldUpdates(log) :
           log[i].n = Fixed(ChunkSize + 10) /\ log[i].r = Fixed(ChunkSize + 10)
    /\ <<3, 3>> \in Resident(world)
    /\ <<-2, -2>> \notin Resident(world)
    /\ world.chunks[1].key = <<-1, -1>>
    /\ Len(world.chunks) = 25

HeightQueries(l) == {i \in 1..Len(l) : l[i].ev = "getHeightAt"}
ChunkKeyAt(x, z) == ChunkKey(x \div Fixed(ChunkSize), z \div Fixed(ChunkSize))

\* what getHeightAt returns at (x, z) once the chunk there holds the samples
\* that generateTerrainForChunk has computed for it
InterpolatedHeight(w, x, z) ==
    LET key == ChunkKeyAt(x, z)
        stored == [MapGet(w.chunks, key) EXCEPT
                       !.heightMap = TerrainHeightMap(w, key[1], key[2])]
    IN getHeightAt([w EXCEPT !.chunks = <<[key |-> key, value |-> stored]>>],
                   x, z).height

\* C18: for a resident chunk, getHeightAt(x, z) is the bilinear interpolation
\* of the four height samples of the chunk around (x, z).
C18_HeightIsBilinear ==
    \A i \in HeightQueries(log) :
        ChunkKeyAt(log[i].n, log[i].r) \in Resident(world) =>
            log[i].t = InterpolatedHeight(world, log[i].n, log[i].r)

\* a height was asked for inside a resident chunk whose terrain is not flat
\* there
C18_QueryOnTerrain ==
    \E i \in HeightQueries(log) :
        /\ ChunkKeyAt(log[i].n, log[i].r) \in Resident(world)
        /\ InterpolatedHeight(world, log[i].n, log[i].r) # 0
        /\ log[i].t = 0

\* C19: getHeightAt for a position whose chunk is not resident returns 0 and
\* leaves the World as it was: no chunk is created and nothing else changes.
C19_AbsentChunkIsZero ==
    [][\A i \in HeightQueries(log') :
           ChunkKeyAt(log'[i].n, log'[i].r) \notin Resident(world) =>
               /\ log'[i].t = 0
               /\ world' = world]_vars

\* chunks are resident, and a height was asked for outside them
C19_Witness ==
    /\ Len(world.chunks) = 25
    /\ \E i \in HeightQueries(log) :
           /\ ChunkKeyAt(log[i].n, log[i].r) \notin Resident(world)
           /\ log[i].t = 0

NodesOf(w) ==
    UNION {Range(w.chunks[j].value.objects) : j \in 1..Len(w.chunks)}

\* C20: every resource node of a resident chunk stands at the height that
\* getHeightAt gives on the chunk's own height grid at the node's (x, z),
\* and every resident chunk has its grid.
C20_NodesOnTerrain ==
    /\ \A j \in 1..Len(world.chunks) :
           world.chunks[j].value.heightMap # NoHeightMap
    /\ \A node \in NodesOf(world) :
           node.y = InterpolatedHeight(world, node.x, node.z)

\* a chunk has been generated and populated, and a node of it is not at the
\* height of the terrain
C20_NodeOffTerrain ==
    \E node \in NodesOf(world) :
        node.y = 0 /\ InterpolatedHeight(world, node.x, node.z) # 0

(***************************************************************************)
(* SpecNodes: the player walks between its start, the trees and the rocks   *)
(* of the first chunk and a far chunk, harvests, and the respawn timers     *)
(* run.                                                                     *)
(***************************************************************************)
\* where the nodes of the first chunk generated around the start stand
FirstChunk == ChunkKey(-ViewDistance, -ViewDistance)
SpotOf(offset) ==
    <<FirstChunk[1] * Fixed(ChunkSize) + offset[1],
      FirstChunk[2] * Fixed(ChunkSize) + offset[2]>>
HarvestPositions ==
    UNION {{SpotOf(o.tree), SpotOf(o.rock)} : o \in NodeOffsets}
FarPosition == <<Fixed(ChunkSize + 10), Fixed(ChunkSize + 10)>>

PendingRespawns(w) ==
    Cardinality({i \in DOMAIN w.objects : w.objects[i].sinceHarvest # NoTime})

WithinNodes(s) ==
    /\ PendingRespawns(s.world) <= MaxRespawns
    /\ (s.inventory.wood - StartingWood) + (s.inventory.stone - StartingStone)
           <= MaxHarvest

\* the registry is followed far enough to tell what checkInteraction returns
Followed(w, position) ==
    \/ Len(w.objects) < MaxObjects
    \/ checkInteraction(w, position, InteractionRange) # 0

\* a frame of the game loop: World.update, then checkInteractions
NodeFrame ==
    \E playerPosition \in {PlayerStart, FarPosition} \cup HarvestPositions,
       pressed \in BOOLEAN, treeCount \in TreeCounts,
       rockCount \in RockCounts, offset \in NodeOffsets :
        /\ FirstFrameAt(world, playerPosition)
        /\ \E w \in {WorldUpdate(world, playerPosition, treeCount, rockCount, offset)} :
            \E s \in {IF pressed
                      THEN checkInteractions([Cur EXCEPT !.world = w], playerPosition)
                      ELSE Publish([Cur EXCEPT !.world = w],
                                   LogEntry("worldUpdate", playerPosition[1],
                                            playerPosition[2], 0))} :
                /\ pressed => Followed(w, playerPosition)
                /\ WithinNodes(s)
                /\ Assign(s)

\* interact() is called on a node that cannot be interacted with
DepletedInteract ==
    \E i \in DOMAIN world.objects :
        /\ ~canInteract(world.objects[i])
        /\ \E r \in {interact(world.objects[i])} :
               Assign(Publish([Cur EXCEPT !.world.objects[i] = r.node],
                              LogEntry("interact", i, r.reward.amount,
                                       r.node.health)))

\* wall-clock time passes for the respawn timers
NodeClock ==
    \E d \in NodeTimeSteps :
        \E s \in {[Cur EXCEPT !.world.objects =
                      [i \in DOMAIN @ |->
                          [@[i] EXCEPT !.sinceHarvest =
                              Elapse(@, d, NodeKinds[world.objects[i].kind].respawnTime)]]]} :
            /\ s.world # world
            /\ Assign(s)

\* the timer set by interact runs respawn
RespawnFires ==
    \E i \in DOMAIN world.objects :
        /\ world.objects[i].sinceHarvest # NoTime
        /\ world.objects[i].sinceHarvest >= NodeKinds[world.objects[i].kind].respawnTime
        /\ Assign(Publish([Cur EXCEPT !.world.objects[i] =
                                          [respawn(@) EXCEPT !.pending = @ - 1]],
                          LogEntry("respawn", i, 0, 0)))

NextNodes ==
    \/ NodeFrame
    \/ DepletedInteract
    \/ NodeClock
    \/ RespawnFires

SpecNodes == Init /\ [][NextNodes]_vars

\* C21: no node of an evicted chunk remains in the object registry, so that
\* checkInteraction and getObjectsNear never return one.
C21_NoEvictedNodeInRegistry ==
    /\ \A i \in DOMAIN world.objects : ~world.objects[i].evicted
    /\ \A position \in HarvestPositions :
           \A i \in {checkInteraction(world, position, InteractionRange)}
                   \cup getObjectsNear(world, position, InteractionRange) :
               i # 0 => ~world.objects[i].evicted

\* the chunk of the first trees has been removed and checkInteraction still
\* returns one of its trees
C21_EvictedNodeReturned ==
    \E position \in HarvestPositions :
        LET i == checkInteraction(world, position, InteractionRange)
        IN i # 0 /\ world.objects[i].evicted

\* C22: the physics system being present, the terrain bodies registered are
\* those of the resident chunks, one under the key of each.
C22_BodiesMatchResidents ==
    world.physicsEnabled \/ world.chunks # <<>> =>
        world.terrainBodies = Resident(world)

\* chunks are resident and the only body registered is under no chunk's key
C22_BodyUnderUndefinedKey ==
    /\ Len(world.chunks) = 25
    /\ world.terrainBodies = {UndefinedKey}
    /\ \E i \in WorldUpdates(log) : ChunkKeyOf(<<log[i].n, log[i].r>>) # <<0, 0>>

Respawns(l) == {i \in 1..Len(l) : l[i].ev = "respawn"}

\* C23: the step that evicts a chunk leaves no respawn timer pending for a
\* node of that chunk, and no respawn callback runs on a node of an evicted
\* chunk.
C23_EvictionCancelsRespawn ==
    [][/\ \A i \in DOMAIN world.objects :
              (i \in DOMAIN world'.objects
                  /\ ~world.objects[i].evicted /\ world'.objects[i].evicted)
                  => world'.objects[i].sinceHarvest = NoTime
       /\ \A k \in Respawns(log') : ~world.objects[log'[k].n].evicted]_vars

\* a respawn callback has just run on a tree whose chunk was evicted while
\* the timer was pending
C23_RespawnAfterEviction ==
    \E k \in Respawns(log) :
        /\ world.objects[log[k].n].evicted
        /\ world.objects[log[k].n].owner \notin Resident(world)
        /\ world.objects[log[k].n].interactionEnabled

Interacts(l) == {i \in 1..Len(l) : l[i].ev = "interact"}
CallsToDeplete(kind) == (NodeKinds[kind].health + HarvestDamage - 1) \div HarvestDamage

\* C24: an accepted interact() takes 25 off the health of the node; the
\* ceil(H / 25)-th accepted call since the node was whole (the 4th for a
\* tree, the 6th for a rock) yields resourceAmount, makes the node Depleted
\* and sets its respawn timer, every earlier one yields 1 and leaves it
\* Active; the timer runs respawn no sooner than respawnTime later, and the
\* node is then Active with its full health H.
C24_HarvestAndRespawn ==
    [][/\ \A k \in Interacts(log') :
              LET i == log'[k].n
                  before == world.objects[i]
                  after == world'.objects[i]
                  call == (NodeKinds[before.kind].health - before.health)
                              \div HarvestDamage + 1
              IN (i \in DOMAIN world.objects /\ canInteract(before)) =>
                     /\ (NodeKinds[before.kind].health - before.health)
                            % HarvestDamage = 0
                     /\ call <= CallsToDeplete(before.kind)
                     /\ after.health = before.health - HarvestDamage
                     /\ IF call < CallsToDeplete(before.kind)
                        THEN /\ log'[k].r = 1
                             /\ canInteract(after)
                             /\ after.sinceHarvest = NoTime
                        ELSE /\ log'[k].r = NodeKinds[before.kind].resourceAmount
                             /\ ~canInteract(after)
                             /\ after.sinceHarvest = 0
       /\ \A k \in Respawns(log') :
              LET before == world.objects[log'[k].n]
                  after == world'.objects[log'[k].n]
              IN /\ ~canInteract(before)
                 /\ before.sinceHarvest >= NodeKinds[before.kind].respawnTime
                 /\ canInteract(after)
                 /\ after.health = NodeKinds[before.kind].health
                 /\ after.sinceHarvest = NoTime]_vars

\* the fourth interaction with a tree has just depleted it and paid 3 wood,
\* and it is the second full harvest: a tree has respawned in between
C24_Witness ==
    /\ \E k \in Interacts(log) :
           /\ world.objects[log[k].n].kind = "tree"
           /\ log[k].r = NodeKinds.tree.resourceAmount
           /\ world.objects[log[k].n].health = 0
           /\ \A j \in DOMAIN world.objects :
                  j # log[k].n => /\ canInteract(world.objects[j])
                                  /\ world.objects[j].health
                                         = NodeKinds[world.objects[j].kind].health
    /\ inventory.wood = StartingWood + 12

\* the sixth interaction with a rock has depleted it and paid 5 stone
C24_WitnessRock ==
    \E k \in Interacts(log) :
        /\ world.objects[log[k].n].kind = "rock"
        /\ log[k].r = NodeKinds.rock.resourceAmount
        /\ world.objects[log[k].n].health = 0
        /\ inventory.stone = StartingStone + 10

\* C25: interact() on a node that cannot be interacted with returns no
\* reward and changes nothing: the node, its timer and the inventory stay as
\* they were.
C25_DepletedInteractIsNoOp ==
    [][\A k \in Interacts(log') :
           (log'[k].n \in DOMAIN world.objects
               /\ ~canInteract(world.objects[log'[k].n])) =>
                  /\ log'[k].r = NoLoot.amount
                  /\ world' = world
                  /\ inventory' = inventory
                  /\ timers' = timers]_vars

\* interact() has just been called on a depleted tree whose timer is running
C25_Witness ==
    \E k \in Interacts(log) :
        /\ ~canInteract(world.objects[log[k].n])
        /\ world.objects[log[k].n].sinceHarvest > 0
        /\ log[k].r = 0

(***************************************************************************)
(* SpecUnits: one allied AnimalUnit and one enemy that stands still.  The  *)
(* unit is updated frame by frame, anybody may hit the enemy, and the      *)
(* player asks UnitSystem for further units.                               *)
(***************************************************************************)
UnitTypesUnderTest == {"fox"}
UnitPositions == {410, 500}
WanderOffsets == {-70, 70}
UnitDeltaTimes == {5, 10}
UnitRevisions == {<<"combat", FALSE>>, <<"physics", FALSE>>, <<"physics", TRUE>>}
WoodChoices == {0, StartingWood}
UnitTypesOnOffer == {"wolf", "bear"}

PlacedUnit(type, revision, position, offset) ==
    [(IF revision[1] = "combat" THEN NewAnimalUnit(type)
      ELSE NewPhysicsAnimalUnit(type, revision[2]))
        EXCEPT !.position = position, !.checkedAt = position,
               !.lastPosition = IF revision[1] = "combat" THEN position ELSE @,
               !.wanderPoint = position + offset]

InitUnits ==
    \E variation \in VariationChoices, at \in SpawnPositions,
       type \in UnitTypesUnderTest, revision \in UnitRevisions,
       position \in UnitPositions, offset \in WanderOffsets, wood \in WoodChoices :
        StartIn([spawnEnemy([Constructed EXCEPT !.waveNumber = 1],
                            "ok", "goblin", variation, at)
                    EXCEPT !.agent = PlacedUnit(type, revision, position, offset),
                           !.inventory.wood = wood,
                           !.log = <<>>])

InArena(position) == position >= ArenaMin /\ position <= ArenaMax

\* UnitSystem.update(deltaTime): a unit that is not dead is updated
UnitFrame ==
    \E deltaTime \in UnitDeltaTimes, offset \in WanderOffsets,
       disposed \in BOOLEAN, blocked \in BOOLEAN :
        /\ agent # NoAgent
        /\ ~isDead(agent)
        /\ \E loot \in {CHOOSE l \in LootChoices : TRUE} :
           \E s \in {AnimalUnitUpdate(Cur, deltaTime, offset, loot, disposed,
                         IF blocked THEN agent.position
                         ELSE StepToward(agent, agent.wanderPoint, deltaTime))} :
               /\ InArena(s.agent.position)
               /\ InstallUnbounded(Publish(s, LogEntry("unitUpdate", 0, deltaTime, 0)))

\* a key press handled by UnitSystem: spawnUnit(unitType, position)
SpawnUnit ==
    \E unitType \in UnitTypesOnOffer, position \in {PlayerStart[1]} :
        \E r \in {spawnUnit(Cur, unitType, position)} :
            InstallUnbounded(
                Publish(r.s, LogEntry("spawnUnit", unitTypes[unitType].cost,
                                      r.result, inventory.wood)))

NextUnits ==
    \/ UnitFrame
    \/ EnemyUnitTakeDamage
    \/ SpawnUnit

SpecUnits == InitUnits /\ [][NextUnits]_vars

\* the step is an update of the allied unit
UnitUpdated == \E k \in DOMAIN log' : log'[k].ev = "unitUpdate"
UnitAttacks(l) == {k \in DOMAIN l : l[k].ev = "unitAttack"}

\* C26: an allied unit that is in the Attack state with a target that has
\* died clears its target and is in Wander after its next update, and that
\* update makes no damage call on the dead target.
C26_DeadTargetDropped ==
    [][(/\ UnitUpdated
        /\ agent.state = "attacking"
        /\ agent.target # NoTarget
        /\ ~enemyUnits[agent.target].isAlive)
       => /\ agent'.target = NoTarget
          /\ agent'.state = "wandering"
          /\ UnitAttacks(log') = {}]_vars

\* the allied unit has just been updated, and it is still attacking an enemy
\* that was dead before the update
C26_StillAttackingTheDead ==
    /\ agent # NoAgent
    /\ agent.state = "attacking"
    /\ agent.target # NoTarget
    /\ ~enemyUnits[agent.target].isAlive
    /\ UnitAttacks(log) # {}

\* C27: on a perception tick that finds a live enemy within the vision
\* radius, the unit takes the nearest such enemy as its target and goes to
\* Attack if that enemy is within attackRange, to Seek otherwise.
C27_AttackOnlyInRange ==
    [][\A k \in DOMAIN log' :
          (/\ log'[k].ev = "targetFound"
           /\ \E j \in 1..(k - 1) : log'[j].ev = "perceptionTick"
           /\ enemyUnits'[log'[k].n].isAlive)
          => /\ agent'.target = log'[k].n
             /\ agent'.state = IF log'[k].r <= agent.attackRange
                               THEN "attacking" ELSE "seeking"]_vars

\* a perception tick has sent the unit into Attack on a live enemy that is
\* beyond its attackRange
C27_AttackOutOfRange ==
    /\ agent # NoAgent
    /\ agent.state = "attacking"
    /\ \E k \in DOMAIN log :
          /\ log[k].ev = "targetFound"
          /\ log[k].r > agent.attackRange
          /\ enemyUnits[log[k].n].isAlive

\* C28: every damage application of an attacking unit deals exactly the
\* unit's damage value, and at least attackCooldown seconds have passed
\* since the unit's previous application.
C28_DamageOncePerCooldown ==
    [][\A k \in UnitAttacks(log') :
          /\ log'[k].r = agent.damage
          /\ (log'[k].t = NoTime \/ log'[k].t >= AttackCooldown * UnitSecond)]_vars

C29_CombatRevisionRecovers ==
    [][(/\ agent.revision = "combat"
        /\ \E k \in DOMAIN log' :
              /\ log'[k].ev = "unitUpdate"
              /\ agent.sinceCheck + log'[k].r >= StuckCheckInterval
        /\ agent.state # "attacking"
        /\ Abs(agent.position - agent.checkedAt) < StuckDistance)
       => /\ \E k \in DOMAIN log' : log'[k].ev = "checkIfStuck"
          /\ \E k \in DOMAIN log' : log'[k].ev = "wanderPoint"
          /\ agent'.state # "seeking"]_vars

\* C30: spawnUnit with less wood in the inventory than the unit costs
\* returns null without throwing and changes neither the inventory nor the
\* roster of allied units.
C30_RejectedPlacement ==
    [][\A k \in DOMAIN log' :
          (log'[k].ev = "spawnUnit" /\ inventory.wood < log'[k].n)
          => /\ log'[k].r = "null"
             /\ inventory' = inventory
             /\ units' = units]_vars

(***************************************************************************)
(* SpecRoster: a UnitSystem whose inventorySystem provides hasItem, its    *)
(* roster of allied units and the inventory.  The player places units and  *)
(* adds and removes items, units are hit, and UnitSystem.update runs once  *)
(* a frame.                                                                *)
(***************************************************************************)
MaxUnits == 2
MaxItems == 40
RosterTypes == {"fox", "dragon"}
RosterPositions == {410}
RosterOffsets == {70}
RosterDeltaTimes == {10}
UnitHits == {45}
ItemTypes == {"wood", "stone", "gold"}
ItemAmounts == {0, 12}

WithinRoster(s) ==
    /\ Len(s.units) <= MaxUnits
    /\ \A i \in DOMAIN s.units : InArena(s.units[i].position)
    /\ \A type \in DOMAIN s.inventory : s.inventory[type] <= MaxItems

InstallRoster(s) == \E next \in {s} : WithinRoster(next) /\ Assign(next)

\* a key press handled by UnitSystem: spawnUnit(unitType, position)
RosterSpawn ==
    \E unitType \in RosterTypes, position \in RosterPositions,
       constructed \in {"ok", "throws"} :
        \E r \in {spawnUnitVia("collaborator", Cur, unitType,
                                position, constructed)} :
            \E s \in {Publish(r.s, LogEntry("spawnUnit", unitType, r.result,
                                             constructed))} : InstallRoster(s)

\* somebody calls takeDamage on an allied unit
UnitTakeDamage ==
    \E i \in DOMAIN units, amount \in UnitHits :
        \E s \in {Publish([Cur EXCEPT !.units[i] = AnimalTakeDamage(@, amount)],
                           LogEntry("unitHit", i, amount, 0))} : InstallRoster(s)

\* one frame: UnitSystem.update(deltaTime)
UnitSystemFrame ==
    \E deltaTime \in RosterDeltaTimes, offset \in RosterOffsets :
        \E loot \in {CHOOSE l \in LootChoices : TRUE} :
            \E s \in {UnitSystemUpdate(
                          Publish(Cur, LogEntry("unitSystemUpdate", 0, deltaTime, 0)),
                          deltaTime, offset, loot)} : InstallRoster(s)

\* InventorySystem.addItem(type, amount)
AddItem ==
    \E type \in ItemTypes, amount \in ItemAmounts :
        \E s \in {Publish([Cur EXCEPT !.inventory = addItem(@, type, amount)],
                           LogEntry("addItem", amount,
                                    addItemReturns(inventory, type, amount), type))} :
            InstallRoster(s)

\* InventorySystem.removeItem(type, amount)
RemoveItem ==
    \E type \in ItemTypes, amount \in ItemAmounts :
        \E s \in {Publish([Cur EXCEPT !.inventory = removeItem(@, type, amount)],
                           LogEntry("removeItem", amount,
                                    removeItemReturns(inventory, type, amount), type))} :
            InstallRoster(s)

NextRoster ==
    \/ RosterSpawn
    \/ UnitTakeDamage
    \/ UnitSystemFrame
    \/ AddItem
    \/ RemoveItem

SpecRoster == Init /\ [][NextRoster]_vars

LoggedAt(l, ev, n) == {k \in DOMAIN l : l[k].ev = ev /\ l[k].n = n}
HealthOf(us) == [i \in DOMAIN us |-> us[i].health]
Alive(u) == ~isDead(u)

\* C31: after every UnitSystem.update pass the roster of allied units holds
\* no unit with health <= 0; the pass disposes of and removes each unit that
\* was dead exactly once, and removes no unit that was alive.
C31_RosterHoldsNoDead ==
    [][Logged(log', "unitSystemUpdate")
       => /\ \A i \in DOMAIN units' : ~isDead(units'[i])
          /\ \A i \in DOMAIN units :
                IF isDead(units[i])
                THEN /\ Cardinality(LoggedAt(log', "dispose", i)) = 1
                     /\ LoggedAt(log', "unitUpdated", i) = {}
                ELSE /\ LoggedAt(log', "dispose", i) = {}
                     /\ Cardinality(LoggedAt(log', "unitUpdated", i)) = 1
          /\ HealthOf(units') = HealthOf(SelectSeq(units, Alive))]_vars

\* a pass has disposed of a dead unit and updated one that was alive
C31_Witness ==
    /\ Logged(log, "unitSystemUpdate")
    /\ Logged(log, "dispose")
    /\ Logged(log, "unitUpdated")
    /\ units # <<>>

C37_PaidForNothing ==
    /\ \E k \in DOMAIN log :
          log[k].ev = "spawnUnit" /\ log[k].t = "throws" /\ log[k].r = "null"
    /\ units = <<>>
    /\ inventory.wood = StartingWood - unitTypes.fox.cost

\* C39: no count of the inventory is negative after any addItem or
\* removeItem with a non-negative amount; removeItem of more than is held,
\* and either call with a type the inventory does not support, returns false
\* and leaves the inventory as it was.
C39_CountsNeverNegative ==
    [][/\ \A type \in DOMAIN inventory' : inventory'[type] >= 0
       /\ \A k \in DOMAIN log' :
             /\ (/\ log'[k].ev = "removeItem"
                 /\ (log'[k].t \notin DOMAIN inventory
                        \/ inventory[log'[k].t] < log'[k].n))
                => (log'[k].r = FALSE /\ inventory' = inventory)
             /\ (log'[k].ev = "addItem" /\ log'[k].t \notin DOMAIN inventory)
                => (log'[k].r = FALSE /\ inventory' = inventory)]_vars

\* removeItem has been asked for more of a supported type than is held
C39_Witness ==
    \E k \in DOMAIN log :
        /\ log[k].ev = "removeItem"
        /\ log[k].t \in DOMAIN inventory
        /\ inventory[log[k].t] < log[k].n
        /\ log[k].r = FALSE

(***************************************************************************)
(* The roster of enemies and the timers of a wave                          *)
(***************************************************************************)
TimesInRoster(roster, id) == Cardinality({i \in DOMAIN roster : roster[i] = id})
Created(id) == enemyUnits[id] = NoEnemy /\ enemyUnits'[id] # NoEnemy

\* C33: every live enemy is in the roster exactly once, and exactly one
\* enemySpawned event is published for every enemy that is spawned.
C33_OnceInRoster ==
    [][/\ \A id \in LiveEnemies(enemyUnits') : TimesInRoster(enemies', id) = 1
       /\ \A id \in DOMAIN enemyUnits :
             Created(id) => Cardinality(LoggedAt(log', "enemySpawned", id)) = 1]_vars

\* a live enemy is in the roster twice
C33_TwiceInRoster ==
    \E id \in LiveEnemies(enemyUnits) : TimesInRoster(enemies, id) = 2

(***************************************************************************)
(* SpecAttempts: Spec with spawnAttempts, the number of per-enemy spawn    *)
(* callbacks that have run since the last startNextWave.                   *)
(***************************************************************************)
MaxAttempts == 9

Counted(s, attempts) ==
    [s EXCEPT !.spawnAttempts = IF Logged(s.log, "startNextWave") THEN 0
                                ELSE Min(attempts, MaxAttempts)]

UpdateCounted ==
    \E deltaTime \in DeltaTimes, batchDelay \in BatchDelays, loot \in LootChoices :
        \E s \in {update(Cur, deltaTime, batchDelay, loot)} :
            Install(Counted(s, spawnAttempts))

FireSpawnCounted ==
    \E j \in 1..Len(timers), outcome \in SpawnOutcomes,
       variation \in VariationChoices, position \in SpawnPositions :
        \E type \in AvailableTypes(waveNumber) :
            /\ timers[j].kind = "spawn"
            /\ MayFire(timers, j)
            /\ outcome = "throwBeforeRegister" \/ FreeSlots(Cur) # {}
            /\ Install(Counted(
                   SpawnCallback([Cur EXCEPT !.timers = TakeCallback(@, j)],
                                 outcome, type, variation, position),
                   spawnAttempts + 1))

NextAttempts ==
    \/ UpdateCounted
    \/ FireInitial
    \/ FireSpawnCounted
    \/ FireBatch
    \/ EnemyTakeDamage
    \/ Advance

SpecAttempts == Init /\ [][NextAttempts]_vars

\* C34: enemiesRemaining is never negative, and a wave never makes more
\* spawn attempts than min(5 + 2 * wave, 30), however the timers and the
\* watchdogs interleave.
C34_AttemptsWithinWave ==
    /\ enemiesRemaining >= 0
    /\ waveNumber >= 1 => spawnAttempts <= EnemiesForWave(waveNumber)

\* the wave has made more spawn attempts than it has enemies
C34_TooManyAttempts ==
    /\ waveNumber >= 1
    /\ spawnAttempts > EnemiesForWave(waveNumber)

\* C35: no enemy is added to the roster while no wave is in progress; a
\* spawn callback that runs after the wave has completed spawns nothing and
\* leaves enemiesRemaining as it is.
C35_NoSpawnOutsideWave ==
    [][~waveInProgress
       => /\ waveInProgress' \/ Len(enemies') <= Len(enemies)
          /\ SpawnsPending(timers') < SpawnsPending(timers)
             => /\ enemiesRemaining' = enemiesRemaining
                /\ \A id \in DOMAIN enemyUnits : ~Created(id)]_vars

\* an enemy is in the roster and no wave is in progress
C35_EnemyOutsideWave ==
    /\ ~waveInProgress
    /\ enemies # <<>>

BatchTimers(tms) == {j \in DOMAIN tms : tms[j].kind = "batch"}

\* C36: at most one batch timer is pending at any time, and none while no
\* wave is in progress.
C36_OneBatchTimer ==
    /\ Cardinality(BatchTimers(timers)) <= 1
    /\ ~waveInProgress => BatchTimers(timers) = {}

\* a batch timer is pending while the spawn callbacks of its batch are
C36_Witness ==
    /\ Cardinality(BatchTimers(timers)) = 1
    /\ nextSpawnTimeout # NoTimer
    /\ SpawnsPending(timers) > 0
    /\ waveInProgress

\* C38: a resource node has at most one pending respawn timer, and in every
\* state it is either active with health > 0 or depleted, with interaction
\* disabled and health <= 0.
C38_ActiveOrDepleted ==
    \A i \in DOMAIN world.objects :
        LET node == world.objects[i]
        IN /\ node.pending <= 1
           /\ \/ canInteract(node) /\ node.health > 0
              \/ ~canInteract(node) /\ node.health <= 0

\* a node has just been harvested to the end: it is closed to interaction
\* and its one respawn timer is pending
C38_Witness ==
    /\ \E i \in DOMAIN world.objects :
          /\ ~canInteract(world.objects[i])
          /\ world.objects[i].pending = 1
    /\ Logged(log, "interact")
    /\ \E k \in DOMAIN log : log[k].ev = "interact" /\ log[k].t <= 0

(***************************************************************************)
(* SpecBus: the EventBus.  Callbacks subscribe and unsubscribe, and events *)
(* are emitted; a callback that is invoked may unsubscribe a callback of   *)
(* the event under delivery, itself included.                              *)
(***************************************************************************)
MaxListeners == 2
Events == {"enemySpawned", "enemyRemoved"}
Callbacks == {"a", "b", "c"}
NoCallback == "none"

\* this.listeners.get(event), or no callbacks when the Map has no such key
Subscribed(m, event) == IF MapHas(m, event) THEN MapGet(m, event) ELSE <<>>

\* EventBus.on(event, callback)
on(m, event, callback) ==
    LET m1 == IF ~MapHas(m, event) THEN MapSet(m, event, <<>>) ELSE m
    IN MapSet(m1, event, Append(MapGet(m1, event), callback))

\* EventBus.off(event, callback)
off(m, event, callback) ==
    IF ~MapHas(m, event) THEN m
    ELSE LET callbacks == MapGet(m, event)
             index == IndexOf(callbacks, callback)
         IN IF index # 0 THEN MapSet(m, event, Splice(callbacks, index)) ELSE m

\* the body of a callback: does[callback] is the callback it takes off the
\* event, NoCallback if it takes none off
Invoke(s, event, callback, does) ==
    Publish([s EXCEPT !.listeners = IF does[callback] = NoCallback THEN @
                                    ELSE off(@, event, does[callback])],
            LogEntry("invoke", callback, 0, 0))

\* `for (const callback of this.listeners.get(event))`: the array iterator
\* reads the array itself at index i, and ends when i reaches its length
RECURSIVE emitFrom(_, _, _, _)
emitFrom(s, event, i, does) ==
    LET callbacks == MapGet(s.listeners, event)
    IN IF i > Len(callbacks) THEN s
       ELSE Bind(Invoke(s, event, callbacks[i], does), LAMBDA s1 :
                emitFrom(s1, event, i + 1, does))

\* EventBus.emit(event, data)
emit(s, event, does) ==
    IF ~MapHas(s.listeners, event) THEN s ELSE emitFrom(s, event, 1, does)

WithinBus(s) ==
    \A event \in Events : Len(Subscribed(s.listeners, event)) <= MaxListeners

InstallBus(s) == \E next \in {s} : WithinBus(next) /\ Assign(next)

On ==
    \E event \in Events, callback \in Callbacks :
        \E s \in {Publish([Cur EXCEPT !.listeners = on(@, event, callback)],
                           LogEntry("on", callback, 0, event))} : InstallBus(s)

Off ==
    \E event \in Events, callback \in Callbacks :
        \E s \in {Publish([Cur EXCEPT !.listeners = off(@, event, callback)],
                           LogEntry("off", callback, 0, event))} : InstallBus(s)

EmitEvent ==
    \E event \in Events, does \in [Callbacks -> Callbacks \cup {NoCallback}] :
        \E s \in {emit(Publish(Cur, LogEntry("emit", event, 0, 0)), event, does)} :
            InstallBus(s)

NextBus ==
    \/ On
    \/ Off
    \/ EmitEvent

SpecBus == Init /\ [][NextBus]_vars

\* the callbacks invoked in the step, in the order of their invocation
Invoked(l) ==
    LET calls == SelectSeq(l, LAMBDA e : e.ev = "invoke")
    IN [i \in DOMAIN calls |-> calls[i].n]

\* C40: emit invokes every callback that is subscribed to the event when
\* emit starts exactly once, in subscription order, also when a callback
\* unsubscribes itself or another callback during the delivery; a callback
\* unsubscribed before emit starts is not invoked.
C40_EverySubscriberOnce ==
    [][\A k \in DOMAIN log' :
          log'[k].ev = "emit"
          => /\ Invoked(log') = Subscribed(listeners, log'[k].n)
             /\ \A callback \in Callbacks :
                   IndexOf(Subscribed(listeners, log'[k].n), callback) = 0
                   => IndexOf(Invoked(log'), callback) = 0]_vars

\* the part of C40 about callbacks that are not subscribed when emit starts
C40_UnsubscribedNotInvoked ==
    [][\A k \in DOMAIN log' :
          log'[k].ev = "emit"
          => \A callback \in Callbacks :
                IndexOf(Subscribed(listeners, log'[k].n), callback) = 0
                => IndexOf(Invoked(log'), callback) = 0]_vars

(***************************************************************************)
(* SpecFrame: whole frames of Game.gameLoop.  The player stands where it   *)
(* started or has moved to another chunk, the action key is not pressed,   *)
(* and between frames the timers of the wave run and enemies are hit.  The *)
(* log of a frame holds, in the order of execution, "worldUpdate" (r is 1  *)
(* when the chunks were reconciled), "unitUpdated" for every allied unit   *)
(* updated, "completionCheck" and "cleanup" where EnemySystem.update makes *)
(* its completion check and removes dead enemies, and "enemyUpdates" where *)
(* its loop over the roster starts (n enemies).                            *)
(***************************************************************************)
FramePositions == {PlayerStart, FarPosition}

\* EnemySystem.update(deltaTime), with the places of its steps in the log
TracedUpdate(s, deltaTime, batchDelay, loot) ==
    Bind(ForceStuckWave(s), LAMBDA s1 :
    Bind(WaveMechanics(Publish(s1, LogEntry("completionCheck", Len(s1.enemies),
                                            s1.enemiesRemaining, 0)),
                       deltaTime), LAMBDA s2 :
    Bind(FlushStuckSpawn(s2, batchDelay), LAMBDA s3 :
    Bind(CleanUpInvalid(Publish(s3, LogEntry("cleanup", Len(s3.enemies), 0, 0))),
         LAMBDA s4 :
        Collect(UpdateEnemies(
            Publish(s4, LogEntry("enemyUpdates", Len(s4.enemies), 0, 0)),
            Len(s4.enemies), deltaTime, loot))))))

\* Game.gameLoop(): world.update, systems.unit.update, systems.enemy.update
gameLoop(s, playerPosition, deltaTime, batchDelay, loot, treeCount, rockCount, offset) ==
    LET w == WorldUpdate(s.world, playerPosition, treeCount, rockCount, offset)
        reconciled == IF w.lastPlayerChunkCoords # s.world.lastPlayerChunkCoords
                      THEN 1 ELSE 0
    IN Bind(Publish([s EXCEPT !.world = w],
                    LogEntry("worldUpdate", playerPosition[1], reconciled, 0)),
            LAMBDA s1 :
       Bind(UnitSystemUpdate(s1, deltaTime, CHOOSE o \in RosterOffsets : TRUE, loot),
            LAMBDA s2 : TracedUpdate(s2, deltaTime, batchDelay, loot)))

GameFrame ==
    \E playerPosition \in FramePositions, deltaTime \in DeltaTimes,
       batchDelay \in BatchDelays, loot \in LootChoices,
       treeCount \in TreeCounts, rockCount \in RockCounts, offset \in NodeOffsets :
        /\ FirstFrameAt(world, playerPosition)
        /\ \E s \in {gameLoop(Cur, playerPosition, deltaTime, batchDelay, loot,
                               treeCount, rockCount, offset)} : Install(s)

NextFrame ==
    \/ GameFrame
    \/ FireInitial
    \/ FireSpawn
    \/ FireBatch
    \/ EnemyTakeDamage

SpecFrame == Init /\ [][NextFrame]_vars

Places(l, ev) == {k \in DOMAIN l : l[k].ev = ev}
AgentUpdates(l) ==
    Places(l, "unitUpdated") \cup {k \in Places(l, "enemyUpdates") : l[k].n > 0}
Bookkeeping(l) == Places(l, "completionCheck") \cup Places(l, "cleanup")

\* C32: within every frame the chunks are reconciled before any agent is
\* updated, and the wave bookkeeping (completion check, removal of dead
\* agents) comes after the agents' updates of that frame.
C32_TerrainAgentsDirector ==
    [][/\ \A k \in Places(log', "worldUpdate"), a \in AgentUpdates(log') : k < a
       /\ \A a \in AgentUpdates(log'), b \in Bookkeeping(log') : a < b]_vars

\* the part of C32 about the terrain: the chunks are reconciled before any
\* agent is updated
C32_TerrainBeforeAgents ==
    [][\A k \in Places(log', "worldUpdate"), a \in AgentUpdates(log') : k < a]_vars

\* a frame has reconciled the chunks and updated an enemy
C32_ReconciledAndUpdated ==
    /\ \E k \in Places(log, "worldUpdate") : log[k].r = 1
    /\ AgentUpdates(log) # {}

====
